---------------------------- MODULE Spec2Model ----------------------------
(***************************************************************************)
(* Land-subdivision editor (second revision of the component, the one with *)
(* Select/Edit/Delete and the snapshot history).                           *)
(*                                                                         *)
(* Coordinates are integers counting hundredths of a scene unit, the       *)
(* precision clientToSvg and toFixed(2) give every committed point.        *)
(* Arithmetic is exact (rationals are kept as numerator/denominator).      *)
(*                                                                         *)
(* Arrays are sequences; the code's 0-based indices are kept in Selection  *)
(* and DragState and shifted by one on access.  An array element is one of *)
(*   k = "obj"   an object {road_id|lot_id, polygon|entry_points, width}   *)
(*   k = "hole"  an empty slot left by a write past the end of the array   *)
(*   k = "null"  the null JSON.stringify writes for an empty slot          *)
(***************************************************************************)
EXTENDS Integers, Sequences, FiniteSets, TLC

\* ------------------------------------------------------------------ bounds
MaxPath == 4        \* vertices of an in-progress path
MaxHist == 3        \* snapshots on the undo stack
MaxLots == 2        \* lots in the scene
MaxRoads == 1       \* internal roads in the scene
MaxPublic == 1      \* public roads in the scene
MaxEPs == 2         \* entry points of one public road
MaxGestures == 2    \* drag gestures in one run
MaxEntities == 2    \* boundary, roads and lots drawn in one run of Spec
MaxDrawn == 1       \* boundary, roads and lots drawn in one run of SpecDraw
MaxCoord == 2       \* largest coordinate of the points given to axisAlign
MaxSide == 3        \* longest side of the rectangles given to shoelaceArea
MaxPathApp == 3     \* vertices of an in-progress path in SpecApp

\* ------------------------------------------------------- program constants
Scale == 100        \* hundredths per scene unit: toFixed(2)
ZOOM_BASE == 8      \* pixels per scene unit at the base view
snapTol == 4        \* px
lineTol == 4        \* px
gridTol == 8        \* px
gridStep == 1       \* scene units
hitTol == 6         \* px, onPointerDown

\* ---------------------------------------------------------------- numbers
Abs(x) == IF x < 0 THEN -x ELSE x

RECURSIVE Gcd(_, _)
Gcd(a, b) == IF b = 0 THEN a ELSE Gcd(b, a % b)

\* Math.round(n / d) for d > 0: halves go up
RoundDiv(n, d) == (2 * n + d) \div (2 * d)

\* Number((n / d).toFixed(2)) in hundredths, d > 0: halves go away from zero
toFixed2(n, d) == IF n >= 0 THEN (2 * n + d) \div (2 * d)
                  ELSE -((2 * (-n) + d) \div (2 * d))

\* a distance d (squared: d2n / d2d, in hundredths) is <= px pixels:
\* units per pixel are 1 / ZOOM_BASE, so  d <= px * Scale / ZOOM_BASE
WithinPx(d2n, d2d, px) ==
    d2n * ZOOM_BASE * ZOOM_BASE <= px * px * Scale * Scale * d2d

\* ----------------------------------------------------------------- points
dist2(a, b) == (a[1] - b[1]) * (a[1] - b[1]) + (a[2] - b[2]) * (a[2] - b[2])

Last(s) == s[Len(s)]
Front(s) == SubSeq(s, 1, Len(s) - 1)

\* poly.splice(i, 1) with a 0-based i >= 0: nothing goes when i >= length
Splice(s, i) == IF i < Len(s)
                THEN SubSeq(s, 1, i) \o SubSeq(s, i + 2, Len(s))
                ELSE s

dedupPush(list, p) ==
    IF list = <<>> THEN <<p>>
    ELSE IF dist2(Last(list), p) = 0 THEN list
    ELSE Append(list, p)

\* variant: the tie is locked vertically
axisAlignTieVertical(prev, p) ==
    IF prev = <<>> THEN p
    ELSE IF Abs(p[1] - prev[1][1]) > Abs(p[2] - prev[1][2])
    THEN <<p[1], prev[1][2]>>
    ELSE <<prev[1][1], p[2]>>

\* prev is <<>> (no anchor) or <<anchor>>
axisAlign(prev, p) ==
    IF prev = <<>> THEN p
    ELSE IF Abs(p[1] - prev[1][1]) >= Abs(p[2] - prev[1][2])
    THEN <<p[1], prev[1][2]>>
    ELSE <<prev[1][1], p[2]>>

\* clamped projection of p on the segment a-b.  The result is the rational
\* point (N[1] / D, N[2] / D) and the squared distance d2n / d2d.
\* (ux, uy) is the direction b - a divided by g, the gcd of its components.
projOnDir(p, a, b, ux, uy, g) ==
    LET wx  == p[1] - a[1]
        wy  == p[2] - a[2]
        uu  == ux * ux + uy * uy
        num == wx * ux + wy * uy      \* t = num / (g * uu)
    IN  IF num <= 0
        THEN [N |-> a, D |-> 1, d2n |-> dist2(p, a), d2d |-> 1]
        ELSE IF num >= g * uu
        THEN [N |-> b, D |-> 1, d2n |-> dist2(p, b), d2d |-> 1]
        ELSE [N |-> <<a[1] * uu + num * ux, a[2] * uu + num * uy>>,
              D |-> uu,
              d2n |-> (wx * uy - wy * ux) * (wx * uy - wy * ux),
              d2d |-> uu]

projWithGcd(p, a, b, g) ==
    IF g = 0
    THEN [N |-> a, D |-> 1, d2n |-> dist2(p, a), d2d |-> 1]
    ELSE projOnDir(p, a, b, (b[1] - a[1]) \div g, (b[2] - a[2]) \div g, g)

pointSegProjection(p, a, b) ==
    projWithGcd(p, a, b, Gcd(Abs(b[1] - a[1]), Abs(b[2] - a[2])))

NoProj == [N |-> <<0, 0>>, D |-> 0, d2n |-> 0, d2d |-> 0]

\* the first segment with the strictly smallest distance
closerProj(best, info) ==
    IF best.D = 0 \/ info.d2n * best.d2d < best.d2n * info.d2d
    THEN info ELSE best

RECURSIVE nearestSegment(_, _, _, _)
nearestSegment(p, segments, i, best) ==
    IF i > Len(segments) THEN best
    ELSE nearestSegment(p, segments, i + 1,
             closerProj(best, pointSegProjection(p, segments[i][1], segments[i][2])))

\* NoProj stands for null
projWithin(best, tolPx) ==
    IF WithinPx(best.d2n, best.d2d, tolPx) THEN best ELSE NoProj

snapToNearestSegment(p, segments, tolPx) ==
    IF segments = <<>> THEN NoProj
    ELSE projWithin(nearestSegment(p, segments, 1, NoProj), tolPx)

\* variant: the last of several nearest points wins
closerPointLast(p, best, q) ==
    IF best = <<>> \/ dist2(p, q) <= dist2(p, best[1]) THEN <<q>> ELSE best

closerPoint(p, best, q) ==
    IF best = <<>> \/ dist2(p, q) < dist2(p, best[1]) THEN <<q>> ELSE best

RECURSIVE nearestInPool(_, _, _, _)
nearestInPool(p, pool, i, best) ==
    IF i > Len(pool) THEN best
    ELSE nearestInPool(p, pool, i + 1, closerPoint(p, best, pool[i]))

pointWithin(p, best, tolPx) ==
    IF best # <<>> /\ WithinPx(dist2(p, best[1]), 1, tolPx)
    THEN best[1] ELSE p

\* pools is the concatenation of the pools, in pool order
snapToPools(p, pools, tolPx) ==
    pointWithin(p, nearestInPool(p, pools, 1, <<>>), tolPx)

snapToGrid(p, step, origin, tolPx, always) ==
    IF step <= 0 THEN p
    ELSE LET s == step * Scale
             g == <<RoundDiv(p[1] - origin[1], s) * s + origin[1],
                    RoundDiv(p[2] - origin[2], s) * s + origin[2]>>
         IN  IF always THEN g
             ELSE IF WithinPx(dist2(p, g), 1, tolPx) THEN g ELSE p

\* ------------------------------------------------------- polygon geometry
\* the sum of x1 * y2 - x2 * y1 over the edges of the ring, from edge i on
RECURSIVE crossSum(_, _)
crossSum(points, i) ==
    IF i > Len(points) THEN 0
    ELSE points[i][1] * points[(i % Len(points)) + 1][2]
         - points[(i % Len(points)) + 1][1] * points[i][2]
         + crossSum(points, i + 1)

\* variant: the sign of the winding is kept
shoelaceAreaSigned(points) ==
    IF Len(points) < 3 THEN <<0, 1>> ELSE <<crossSum(points, 1), 2>>

\* Math.abs(s) / 2 as the fraction <<numerator, denominator>>
shoelaceArea(points) ==
    IF Len(points) < 3 THEN <<0, 1>> ELSE <<Abs(crossSum(points, 1)), 2>>

RECURSIVE SumX(_, _)
SumX(points, i) == IF i > Len(points) THEN 0 ELSE points[i][1] + SumX(points, i + 1)
RECURSIVE SumY(_, _)
SumY(points, i) == IF i > Len(points) THEN 0 ELSE points[i][2] + SumY(points, i + 1)

\* the sums of (x1 + x2) * cross and (y1 + y2) * cross over the edges
RECURSIVE crossSumX(_, _)
crossSumX(points, i) ==
    IF i > Len(points) THEN 0
    ELSE (points[i][1] + points[(i % Len(points)) + 1][1])
           * (points[i][1] * points[(i % Len(points)) + 1][2]
              - points[(i % Len(points)) + 1][1] * points[i][2])
         + crossSumX(points, i + 1)
RECURSIVE crossSumY(_, _)
crossSumY(points, i) ==
    IF i > Len(points) THEN 0
    ELSE (points[i][2] + points[(i % Len(points)) + 1][2])
           * (points[i][1] * points[(i % Len(points)) + 1][2]
              - points[(i % Len(points)) + 1][1] * points[i][2])
         + crossSumY(points, i + 1)

\* a point with rational coordinates (X / D, Y / D), in lowest terms, D > 0
RatReduced(X, Y, D, g) == [X |-> X \div g, Y |-> Y \div g, D |-> D \div g]
RatPoint(X, Y, D) ==
    IF D < 0 THEN RatReduced(-X, -Y, -D, Gcd(Gcd(Abs(X), Abs(Y)), -D))
    ELSE RatReduced(X, Y, D, Gcd(Gcd(Abs(X), Abs(Y)), D))

\* the gcd of all coordinates from point i on
RECURSIVE GcdAll(_, _)
GcdAll(points, i) ==
    IF i > Len(points) THEN 0
    ELSE Gcd(Gcd(Abs(points[i][1]), Abs(points[i][2])), GcdAll(points, i + 1))

DividedBy(points, g) ==
    [i \in 1..Len(points) |-> <<points[i][1] \div g, points[i][2] \div g>>]

\* the arithmetic mean of the points
meanPoint(points) == RatPoint(SumX(points, 1), SumY(points, 1), Len(points))

\* cx = sum((x1 + x2) * cross) / (6 * a) with a = crossSum / 2
centroidOf(points) ==
    IF Len(points) < 3 \/ crossSum(points, 1) = 0 THEN meanPoint(points)
    ELSE RatPoint(crossSumX(points, 1), crossSumY(points, 1),
                  3 * crossSum(points, 1))

\* the centroid is computed on the coordinates divided by their gcd g and
\* multiplied back (the same value, in smaller numbers)
centroidTimes(c, g) == RatPoint(c.X * g, c.Y * g, c.D)

centroidWithGcd(points, g) ==
    IF g = 0 THEN RatPoint(0, 0, 1)
    ELSE centroidTimes(centroidOf(DividedBy(points, g)), g)

polygonCentroid(points) ==
    IF points = <<>> THEN RatPoint(0, 0, 1)
    ELSE centroidWithGcd(points, GcdAll(points, 1))

\* q <= w * sqrt(sn / sd) for integers q, w and sn >= 0, sd > 0
LeSqrt(q, w, sn, sd) ==
    IF w >= 0 THEN q <= 0 \/ q * q * sd <= w * w * sn
    ELSE q <= 0 /\ q * q * sd >= w * w * sn

\* an upper bound of |c / d + (w / d) * sqrt(sn / sd)|
ReachOf(c, w, d, sn, sd) ==
    Abs(c) \div d + (Abs(w) \div d + 1) * (sn \div sd + 1) + 2

\* the integer nearest to v = (c + w * sqrt(sn / sd)) / d for v >= 0, d > 0,
\* halves up
roundUpOf(c, w, d, sn, sd) ==
    CHOOSE r \in 0..ReachOf(c, w, d, sn, sd) :
        /\ LeSqrt((2 * r - 1) * d - 2 * c, 2 * w, sn, sd)
        /\ ~LeSqrt((2 * r + 1) * d - 2 * c, 2 * w, sn, sd)

\* Number(v.toFixed(2)) in hundredths: halves go away from zero
roundOf(c, w, d, sn, sd) ==
    IF LeSqrt(-c, w, sn, sd) THEN roundUpOf(c, w, d, sn, sd)
    ELSE -roundUpOf(-c, -w, d, sn, sd)

\* transformPoint(p, s, cx, cy) with s = sqrt(sn / sd) and (cx, cy) = c
transformPoint(p, sn, sd, c) ==
    <<roundOf(c.X, p[1] * c.D - c.X, c.D, sn, sd),
      roundOf(c.Y, p[2] * c.D - c.Y, c.D, sn, sd)>>

\* targetArea is in hundredths squared; s = sqrt(targetArea / A) with
\* A = |crossSum| / 2
scaleAbout(poly, sn, sd, g, c) ==
    [i \in 1..Len(poly) |-> transformPoint(poly[i], sn \div g, sd \div g, c)]

scalePolygonToArea(poly, targetArea) ==
    IF targetArea <= 0 \/ shoelaceArea(poly)[1] <= 0 THEN poly
    ELSE scaleAbout(poly, 2 * targetArea, shoelaceArea(poly)[1],
                    Gcd(2 * targetArea, shoelaceArea(poly)[1]),
                    polygonCentroid(poly))

\* ------------------------------------------------------ snap resolver core
\* collectSegments: the consecutive pairs of poly, plus the closing pair
addSegs(poly, closed) ==
    IF Len(poly) < 2 THEN <<>>
    ELSE [i \in 1..(Len(poly) - 1) |-> <<poly[i], poly[i + 1]>>]
         \o (IF closed /\ Len(poly) >= 3
             THEN << <<poly[Len(poly)], poly[1]>> >> ELSE <<>>)

RECURSIVE Flatten(_)
Flatten(ss) == IF ss = <<>> THEN <<>> ELSE ss[1] \o Flatten(Tail(ss))

\* computePreviewPoint after clientToSvg and the choice of prev:
\* raw is the pointer, prev is <<>> or <<anchor>>, cfg the snap settings
\* [gridSnap, gridStrict, gridTol, lineTol, snapTol], segments and pools the
\* scene's segments and vertex pools.  p2 is the point handed to snapToPools.
alignedPoint(raw, prev, axisLock) ==
    IF axisLock /\ prev # <<>> THEN axisAlign(prev, raw) ELSE raw

gridPoint(aligned, cfg) ==
    IF cfg.gridSnap
    THEN snapToGrid(aligned, gridStep, <<0, 0>>, cfg.gridTol, cfg.gridStrict)
    ELSE aligned

roundedProj(proj) == <<toFixed2(proj.N[1], proj.D), toFixed2(proj.N[2], proj.D)>>

\* variant: the grid candidate wins a tie
lineOrGridStrict(aligned, p1, proj) ==
    IF proj.D = 0 THEN p1
    ELSE IF proj.d2n < dist2(aligned, p1) * proj.d2d
         THEN roundedProj(proj)
         ELSE p1

\* dLine <= dGrid, both measured from aligned
lineOrGrid(aligned, p1, proj) ==
    IF proj.D = 0 THEN p1
    ELSE IF proj.d2n <= dist2(aligned, p1) * proj.d2d
         THEN roundedProj(proj)
         ELSE p1

lineOrGridPoint(aligned, p1, segments, cfg) ==
    IF segments = <<>> THEN p1
    ELSE lineOrGrid(aligned, p1,
                    snapToNearestSegment(aligned, segments, cfg.lineTol))

resolveAligned(aligned, cfg, segments, pools) ==
    snapToPools(lineOrGridPoint(aligned, gridPoint(aligned, cfg), segments, cfg),
                pools, cfg.snapTol)

computePreviewPoint(raw, prev, axisLock, cfg, segments, pools) ==
    resolveAligned(alignedPoint(raw, prev, axisLock), cfg, segments, pools)

\* the useState defaults of the snap settings
DefaultCfg == [gridSnap |-> TRUE, gridStrict |-> TRUE, gridTol |-> gridTol,
               lineTol |-> lineTol, snapTol |-> snapTol]

\* ---------------------------------------------------------------- frontage
\* the sign of the cross product (b - a) x (c - a)
orient(a, b, c) ==
    LET cross == (b[1] - a[1]) * (c[2] - a[2]) - (b[2] - a[2]) * (c[1] - a[1])
    IN  IF cross = 0 THEN 0 ELSE IF cross > 0 THEN 1 ELSE -1

MinInt(x, y) == IF x <= y THEN x ELSE y
MaxInt(x, y) == IF x >= y THEN x ELSE y

onSegment(a, b, p) ==
    /\ p[1] >= MinInt(a[1], b[1]) /\ p[1] <= MaxInt(a[1], b[1])
    /\ p[2] >= MinInt(a[2], b[2]) /\ p[2] <= MaxInt(a[2], b[2])
    /\ (b[1] - a[1]) * (p[2] - a[2]) - (b[2] - a[2]) * (p[1] - a[1]) = 0

segmentsIntersectOrTouch(a, b, c, d) ==
    \/ orient(a, b, c) # orient(a, b, d) /\ orient(c, d, a) # orient(c, d, b)
    \/ orient(a, b, c) = 0 /\ onSegment(a, b, c)
    \/ orient(a, b, d) = 0 /\ onSegment(a, b, d)
    \/ orient(c, d, a) = 0 /\ onSegment(c, d, a)
    \/ orient(c, d, b) = 0 /\ onSegment(c, d, b)

edgesFromPolygon(poly, closed) == addSegs(poly, closed)

\* the smaller of two projections by squared distance
minProj(x, y) == IF x.d2n * y.d2d <= y.d2n * x.d2d THEN x ELSE y

\* Math.sqrt(Math.min(d1, d2, d3, d4)), as the projection that gives it
segmentDistance(a, b, c, d) ==
    minProj(minProj(pointSegProjection(a, c, d), pointSegProjection(b, c, d)),
            minProj(pointSegProjection(c, a, b), pointSegProjection(d, a, b)))

\* one lot edge against one road edge
edgesTouch(e, f, tolPx) ==
    \/ segmentsIntersectOrTouch(e[1], e[2], f[1], f[2])
    \/ /\ tolPx > 0
       /\ WithinPx(segmentDistance(e[1], e[2], f[1], f[2]).d2n,
                   segmentDistance(e[1], e[2], f[1], f[2]).d2d, tolPx)

\* some edge of lotEdges against some edge of roadEdges
anyTouch(lotEdges, roadEdges, tolPx) ==
    \E i \in 1..Len(lotEdges) : \E j \in 1..Len(roadEdges) :
        edgesTouch(lotEdges[i], roadEdges[j], tolPx)

\* the index of the first boundary vertex nearest to pt; 0 stands for -1
nearestBoundaryIndex(pt, bnd) ==
    IF bnd = <<>> THEN 0
    ELSE CHOOSE i \in 1..Len(bnd) :
             /\ \A j \in 1..Len(bnd) : dist2(pt, bnd[i]) <= dist2(pt, bnd[j])
             /\ \A j \in 1..(i - 1) : dist2(pt, bnd[j]) > dist2(pt, bnd[i])

\* the edges walked from vertex iFrom to vertex iTo along the ring
RECURSIVE pathSegsBetweenIndices(_, _, _)
pathSegsBetweenIndices(bnd, iFrom, iTo) ==
    IF iFrom = iTo THEN <<>>
    ELSE << <<bnd[iFrom], bnd[(iFrom % Len(bnd)) + 1]>> >>
         \o pathSegsBetweenIndices(bnd, (iFrom % Len(bnd)) + 1, iTo)

\* Math.hypot(dx, dy) for an edge of integer length (every edge of the
\* boundaries of the model is one)
hypot(dx, dy) ==
    CHOOSE r \in 0..(Abs(dx) + Abs(dy)) : r * r = dx * dx + dy * dy

RECURSIVE pathLen(_)
pathLen(ss) ==
    IF ss = <<>> THEN 0
    ELSE hypot(ss[1][2][1] - ss[1][1][1], ss[1][2][2] - ss[1][1][2])
         + pathLen(Tail(ss))

shorterPath(segsAB, segsBA) ==
    IF pathLen(segsAB) <= pathLen(segsBA) THEN segsAB ELSE segsBA

\* the public-frontage arc of a road, <<>> when the road is skipped
pubSegsBetween(bnd, iA, iB) ==
    IF iA = 0 \/ iB = 0 \/ iA = iB THEN <<>>
    ELSE shorterPath(pathSegsBetweenIndices(bnd, iA, iB),
                     pathSegsBetweenIndices(bnd, iB, iA))

pubSegs(bnd, pr) ==
    IF pr.k # "obj" \/ Len(pr.pts) < 2 THEN <<>>
    ELSE pubSegsBetween(bnd, nearestBoundaryIndex(pr.pts[1], bnd),
                        nearestBoundaryIndex(pr.pts[2], bnd))

\* null, for a road_id
NullId == -1

\* the road_id of the first internal road a lot edge touches
RECURSIVE frontInternal(_, _, _, _)
frontInternal(lotEdges, roads, i, tolPx) ==
    IF i > Len(roads) THEN NullId
    ELSE IF anyTouch(lotEdges, edgesFromPolygon(roads[i].pts, TRUE), tolPx)
    THEN roads[i].id
    ELSE frontInternal(lotEdges, roads, i + 1, tolPx)

\* the road_id of the first public road whose arc a lot edge touches
RECURSIVE frontPublic(_, _, _, _, _)
frontPublic(lotEdges, bnd, roads, i, tolPx) ==
    IF i > Len(roads) THEN NullId
    ELSE IF anyTouch(lotEdges, pubSegs(bnd, roads[i]), tolPx)
    THEN roads[i].id
    ELSE frontPublic(lotEdges, bnd, roads, i + 1, tolPx)

\* variant: the public roads are tried whatever the boundary is
frontPublicInAnyBoundary(lotEdges, ctx, tolPx) ==
    frontPublic(lotEdges, ctx.boundary, ctx.publicRoads, 1, tolPx)

frontPublicIn(lotEdges, ctx, tolPx) ==
    IF ctx.boundaryClosed /\ Len(ctx.boundary) >= 3
    THEN frontPublic(lotEdges, ctx.boundary, ctx.publicRoads, 1, tolPx)
    ELSE NullId

\* variant: the public roads are tried before the internal roads
frontOfEdgesPublicFirst(lotEdges, ctx, tolPx) ==
    IF frontPublicIn(lotEdges, ctx, tolPx) # NullId
    THEN frontPublicIn(lotEdges, ctx, tolPx)
    ELSE frontInternal(lotEdges, ctx.internalRoads, 1, tolPx)

frontOfEdges(lotEdges, ctx, tolPx) ==
    IF frontInternal(lotEdges, ctx.internalRoads, 1, tolPx) # NullId
    THEN frontInternal(lotEdges, ctx.internalRoads, 1, tolPx)
    ELSE frontPublicIn(lotEdges, ctx, tolPx)

\* ctx = [boundary, boundaryClosed, publicRoads, internalRoads]
computeFrontRoadForLot(lotPoly, ctx, tolPx) ==
    IF Len(lotPoly) < 3 THEN NullId
    ELSE frontOfEdges(edgesFromPolygon(lotPoly, TRUE), ctx, tolPx)

\* ------------------------------------------------------------------ export
\* twice the signed area: positive for a counter-clockwise polygon
signedArea(poly) == IF Len(poly) < 3 THEN 0 ELSE crossSum(poly, 1)

Reverse(poly) == [i \in 1..Len(poly) |-> poly[Len(poly) + 1 - i]]

toCCW(openPoly) ==
    IF Len(openPoly) < 3 THEN openPoly
    ELSE IF signedArea(openPoly) > 0 THEN openPoly ELSE Reverse(openPoly)

ensureClosedLoop(polyOpen) ==
    IF Len(polyOpen) < 3 THEN polyOpen
    ELSE IF polyOpen[1] = Last(polyOpen) THEN polyOpen
    ELSE Append(polyOpen, polyOpen[1])

stripClosingDuplicate(poly) ==
    IF Len(poly) < 2 THEN poly
    ELSE IF poly[1] = Last(poly) THEN Front(poly) ELSE poly

\* p - c times the denominator of the centroid c
relTo(p, c) == <<p[1] * c.D - c.X, p[2] * c.D - c.Y>>

\* where Math.atan2(v.y, v.x) falls: 0 for (-pi, 0), 1 for the angle 0 (the
\* zero vector included), 2 for (0, pi), 3 for the angle pi
angleClass(v) ==
    IF v[2] < 0 THEN 0 ELSE IF v[2] > 0 THEN 2 ELSE IF v[1] >= 0 THEN 1 ELSE 3

Sign(x) == IF x = 0 THEN 0 ELSE IF x > 0 THEN 1 ELSE -1

\* the sign of angA - angB for the vectors u and v
angleCmp(u, v) ==
    IF angleClass(u) # angleClass(v) THEN Sign(angleClass(u) - angleClass(v))
    ELSE IF angleClass(u) \in {1, 3} THEN 0
    ELSE Sign(u[2] * v[1] - u[1] * v[2])

\* the sign of the sort comparator of normalizeCCW: angle, then radius
compareAround(u, v) ==
    IF angleCmp(u, v) # 0 THEN angleCmp(u, v)
    ELSE Sign((u[1] * u[1] + u[2] * u[2]) - (v[1] * v[1] + v[2] * v[2]))

\* the place of poly[i] after the stable sort
rankAround(poly, c, i) ==
    1 + Cardinality({j \in 1..Len(poly) :
            \/ compareAround(relTo(poly[j], c), relTo(poly[i], c)) < 0
            \/ /\ compareAround(relTo(poly[j], c), relTo(poly[i], c)) = 0
               /\ j < i})

sortedAround(poly, c) ==
    [k \in 1..Len(poly) |->
        poly[CHOOSE i \in 1..Len(poly) : rankAround(poly, c, i) = k]]

orientSorted(sorted) ==
    IF signedArea(sorted) > 0 THEN sorted ELSE Reverse(sorted)

normalizeOpen(poly) ==
    IF Len(poly) < 3 THEN poly
    ELSE orientSorted(sortedAround(poly, polygonCentroid(poly)))

normalizeCCW(points) == normalizeOpen(stripClosingDuplicate(points))

\* polyOpen.length >= 3 ? ensureClosedLoop(polyOpen) : polyOpen
closedOut(polyOpen) ==
    IF Len(polyOpen) >= 3 THEN ensureClosedLoop(polyOpen) ELSE polyOpen

\* 3 * __avgUP, in pixels
FrontTolPx == 3

exportCtx(sc) ==
    [boundary |-> normalizeCCW(sc.boundary),
     boundaryClosed |-> Len(normalizeCCW(sc.boundary)) >= 3,
     publicRoads |-> sc.publicRoads, internalRoads |-> sc.internalRoads]

\* l.lot_id when the lot has one, else the id made of its place in the list
lotIdOf(l, idx) == IF l.id = 0 THEN idx ELSE l.id

lotInfos(sc) ==
    [i \in 1..Len(sc.lots) |->
        [id |-> lotIdOf(sc.lots[i], i),
         polygonOpen |-> normalizeCCW(sc.lots[i].pts),
         front |-> computeFrontRoadForLot(normalizeCCW(sc.lots[i].pts),
                                          exportCtx(sc), FrontTolPx)]]

\* lotInfos.filter((li) => li.front === roadId).map((li) => li.id)
RECURSIVE lotIdsOf(_, _, _)
lotIdsOf(infos, roadId, i) ==
    IF i > Len(infos) THEN <<>>
    ELSE IF infos[i].front = roadId
    THEN <<infos[i].id>> \o lotIdsOf(infos, roadId, i + 1)
    ELSE lotIdsOf(infos, roadId, i + 1)

exportOf(sc, infos) ==
    [boundary |-> closedOut(normalizeCCW(sc.boundary)),
     roads |-> [i \in 1..Len(sc.publicRoads) |->
        [road_id |-> sc.publicRoads[i].id,
         entry_points |-> sc.publicRoads[i].pts,
         road_to_lot_mapping |-> lotIdsOf(infos, sc.publicRoads[i].id, 1)]],
     internal_roads |-> [i \in 1..Len(sc.internalRoads) |->
        [road_id |-> sc.internalRoads[i].id,
         polygon |-> closedOut(normalizeCCW(sc.internalRoads[i].pts)),
         road_to_lot_mapping |-> lotIdsOf(infos, sc.internalRoads[i].id, 1)]],
     lots |-> [i \in 1..Len(infos) |->
        [lot_id |-> infos[i].id,
         polygon |-> closedOut(infos[i].polygonOpen),
         front_road |-> infos[i].front]]]

\* the object written by exportJSON (the fields of roads and lots that do not
\* depend on the geometry are left out); sc = [boundary, publicRoads,
\* internalRoads, lots]
exportJSON(sc) == exportOf(sc, lotInfos(sc))

\* the id "R003" of the one public road of the first revision
PublicRoadId == 3

\* l.front_road ?? (internalRoads[0]?.road_id || null); a lot keeps its
\* front_road in the field w
\* nextRoadId of the first revision: R + (internalRoads.length + 1)
nextRoadIdApp(irs) == Len(irs) + 1

frontRoadApp(l, roads) ==
    IF l.w # NullId THEN l.w
    ELSE IF roads # <<>> THEN roads[1].id ELSE NullId

\* the object written by exportJSON of the first revision; sc = [boundary,
\* boundaryClosed, publicEntryPoints, internalRoads, lots]
exportJSONApp(sc) ==
    [boundary |-> IF sc.boundaryClosed /\ Len(sc.boundary) >= 3
                  THEN Append(sc.boundary, sc.boundary[1]) ELSE sc.boundary,
     roads |-> << [road_id |-> PublicRoadId,
                   entry_points |-> sc.publicEntryPoints,
                   road_to_lot_mapping |-> <<>>] >>,
     internal_roads |-> [i \in 1..Len(sc.internalRoads) |->
        [road_id |-> sc.internalRoads[i].id,
         polygon |-> sc.internalRoads[i].pts,
         road_to_lot_mapping |-> <<>>]],
     lots |-> [i \in 1..Len(sc.lots) |->
        [lot_id |-> lotIdOf(sc.lots[i], i),
         polygon |-> sc.lots[i].pts,
         front_road |-> frontRoadApp(sc.lots[i], sc.internalRoads)]]]

\* --------------------------------------------------------- array elements
Undef == <<"undef">>
Obj(id, pts, w) == [k |-> "obj", id |-> id, pts |-> pts, w |-> w]
Hole == [k |-> "hole", id |-> 0, pts |-> <<>>, w |-> Undef]
Null == [k |-> "null", id |-> 0, pts |-> <<>>, w |-> Undef]

IsObj(arr, i) == i >= 0 /\ i < Len(arr) /\ arr[i + 1].k = "obj"
AllObj(arr) == \A i \in 1..Len(arr) : arr[i].k = "obj"

\* u[i] = v on a copy of arr, 0-based; a write past the end leaves holes
ArrSet(arr, i, v) ==
    IF i < Len(arr) THEN [arr EXCEPT ![i + 1] = v]
    ELSE arr \o [j \in 1..(i - Len(arr)) |-> Hole] \o <<v>>

\* { ...u[i], polygon: pts } (or entry_points): the spread of a missing
\* element is the empty object
SpreadPts(arr, i, pts) ==
    IF IsObj(arr, i) THEN [arr[i + 1] EXCEPT !.pts = pts]
    ELSE Obj(0, pts, Undef)

\* u.filter((_, j) => j !== i)
RemoveAt(arr, i) == Splice(arr, i)

\* JSON.parse(JSON.stringify(arr)): an empty slot comes back as null
deepCopy(arr) == [i \in 1..Len(arr) |->
                    IF arr[i].k = "hole" THEN Null ELSE arr[i]]


\* ------------------------------------------------------------------ state
VARIABLES
    mode,             \* "boundary" | "publicRoad" | "internalRoad" | "lot" | "select"
    current,          \* the in-progress path
    boundary,         \* polygon of the boundary
    boundaryClosed,
    publicRoads,      \* elements: id = road_id number, pts = entry_points
    activePublicIdx,
    internalRoads,    \* elements: id = road_id number, pts = polygon, w = width
    lots,             \* elements: id = lot_id number, pts = polygon
    history,          \* undo stack of snapshots
    future,           \* redo stack of snapshots
    selection,
    dragging,
    autoInternalWidth,
    crashed,          \* a render threw: the component is unmounted
    gestures,         \* drag gestures started so far (bounds the input)
    snap,             \* one call of the snap resolver, stage by stage
    call,             \* one call of a geometry function: its arguments and result
    publicEntryPoints, \* first revision: the entry points of the one public road
    autoScaleNew      \* first revision: new shapes are scaled to the target area

vars == <<mode, current, boundary, boundaryClosed, publicRoads, activePublicIdx,
          internalRoads, lots, history, future, selection, dragging,
          autoInternalWidth, crashed, gestures, snap, call,
          publicEntryPoints, autoScaleNew>>

Modes == {"boundary", "publicRoad", "internalRoad", "lot", "select"}

\* selection: null | {kind, index, vertexIndex?, edgeIndex?}; -1 is "absent"
NoSel == [kind |-> "none", index |-> -1, vertexIndex |-> -1, edgeIndex |-> -1]
Sel(kind, index, v, e) ==
    [kind |-> kind, index |-> index, vertexIndex |-> v, edgeIndex |-> e]

\* dragging: null | {type, kind, index, vertexIndex|edgeIndex, startMouse,
\*                   startGeom, shiftEdge}
NoDrag == [type |-> "none", kind |-> "none", index |-> -1, vertexIndex |-> -1,
           edgeIndex |-> -1, startMouse |-> <<0, 0>>, startGeom |-> <<>>,
           shiftEdge |-> FALSE]

\* the persistent scene as one record
Scene == [boundary |-> boundary, boundaryClosed |-> boundaryClosed,
          publicRoads |-> publicRoads, internalRoads |-> internalRoads,
          lots |-> lots]

ScenePrime == [boundary |-> boundary', boundaryClosed |-> boundaryClosed',
               publicRoads |-> publicRoads', internalRoads |-> internalRoads',
               lots |-> lots']

makeSnapshot(sc) ==
    [boundary |-> sc.boundary, boundaryClosed |-> sc.boundaryClosed,
     publicRoads |-> deepCopy(sc.publicRoads),
     internalRoads |-> deepCopy(sc.internalRoads),
     lots |-> deepCopy(sc.lots)]

\* restoreSnapshot sets the five fields from the snapshot
restoreSnapshot(s) == s

\* history-manager state: the scene and the two stacks
HState == [scene |-> Scene, history |-> history, future |-> future]

pushHistory(h) ==
    [scene |-> h.scene,
     history |-> Append(h.history, makeSnapshot(h.scene)),
     future |-> <<>>]

undoHistory(h) ==
    IF h.history = <<>> THEN h
    ELSE [scene |-> restoreSnapshot(Last(h.history)),
          history |-> Front(h.history),
          future |-> <<makeSnapshot(h.scene)>> \o h.future]

redoHistory(h) ==
    IF h.future = <<>> THEN h
    ELSE [scene |-> restoreSnapshot(h.future[1]),
          history |-> Append(h.history, makeSnapshot(h.scene)),
          future |-> Tail(h.future)]

\* the render throws a TypeError (and React unmounts the component) when a
\* list holds a null, when a lot's frontage is computed over an internal-road
\* list with an empty slot, or when drawEdgeHighlight reads poly[edgeIndex]
\* past the end of the selected polygon
HasNull(arr) == \E i \in 1..Len(arr) : arr[i].k = "null"
HasHole(arr) == \E i \in 1..Len(arr) : arr[i].k = "hole"

RenderThrows(sc, sel) ==
    \/ HasNull(sc.publicRoads) \/ HasNull(sc.internalRoads) \/ HasNull(sc.lots)
    \/ /\ HasHole(sc.internalRoads)
       /\ \E i \in 1..Len(sc.lots) :
             sc.lots[i].k = "obj" /\ Len(sc.lots[i].pts) >= 3
    \/ /\ sel.edgeIndex >= 0
       /\ \/ /\ sel.kind = "boundary" /\ sc.boundaryClosed
             /\ sel.edgeIndex >= Len(sc.boundary)
          \/ /\ sel.kind = "internal" /\ IsObj(sc.internalRoads, sel.index)
             /\ sel.edgeIndex >= Len(sc.internalRoads[sel.index + 1].pts)
          \/ /\ sel.kind = "lot" /\ IsObj(sc.lots, sel.index)
             /\ sel.edgeIndex >= Len(sc.lots[sel.index + 1].pts)


\* ---------------------------------------------------------------- inputs
\* The pointer positions the model feeds to the handlers.  Drawing clicks
\* walk a ring of grid points (the next ring point, or back on the first or
\* the last vertex of the path); entry points are clicked on the ring's
\* first edges; in select mode the pointer goes down on ring corners, on
\* edge midpoints or off every shape, and drags to one of two positions.
RingPts == << <<0, 0>>, <<200, 0>>, <<200, 200>>, <<0, 200>>,
              <<-100, 100>>, <<-100, 0>> >>

ClickInputs(cur) ==
    (IF Len(cur) < Len(RingPts) THEN {RingPts[Len(cur) + 1]} ELSE {})
    \cup (IF cur # <<>> THEN {Last(cur)} ELSE {})

EPInputs == {<<100, 0>>, <<200, 100>>}
DownInputs == {<<0, 0>>, <<100, 0>>, <<0, 100>>, <<400, 400>>}
MoveInputs == {<<100, 100>>}

\* ---------------------------------------------------------- scene queries
Pts(arr) == Flatten([i \in 1..Len(arr) |-> arr[i].pts])

\* prev of computePreviewPoint: <<>> stands for null
getPrev ==
    IF mode = "boundary" /\ ~boundaryClosed /\ current # <<>> THEN <<Last(current)>>
    ELSE IF mode \in {"internalRoad", "lot"} /\ current # <<>> THEN <<Last(current)>>
    ELSE IF mode = "publicRoad" /\ activePublicIdx >= 0
              /\ IsObj(publicRoads, activePublicIdx)
              /\ publicRoads[activePublicIdx + 1].pts # <<>>
         THEN <<Last(publicRoads[activePublicIdx + 1].pts)>>
    ELSE <<>>

collectSegments(bnd, bc, cur, irs, ls) ==
    addSegs(bnd, bc) \o addSegs(cur, FALSE)
    \o Flatten([i \in 1..Len(irs) |-> addSegs(irs[i].pts, TRUE)])
    \o Flatten([i \in 1..Len(ls) |-> addSegs(ls[i].pts, TRUE)])

collectPools ==
    boundary \o Pts(publicRoads)
    \o (IF current # <<>> THEN Front(current) ELSE <<>>)
    \o Pts(internalRoads) \o Pts(lots)

\* the for-of loops of computePreviewPoint read .polygon / .entry_points of
\* every element: an empty slot makes the handler throw before it sets state
PreviewThrows == ~AllObj(internalRoads) \/ ~AllObj(lots) \/ ~AllObj(publicRoads)

previewPoint(raw, shiftKey) ==
    computePreviewPoint(raw, getPrev, shiftKey /\ mode # "select", DefaultCfg,
                        collectSegments(boundary, boundaryClosed, current,
                                        internalRoads, lots),
                        collectPools)

\* ---------------------------------------------------------------- hit tests
MinOf(S) == CHOOSE x \in S : \A y \in S : x <= y

ThrowSel == [kind |-> "throw", index |-> -1, vertexIndex |-> -1, edgeIndex |-> -1]

VertexHits(poly, p) ==
    {j \in 1..Len(poly) : WithinPx(dist2(poly[j], p), 1, hitTol)}

\* one list of hitTestVertex: the first element with a vertex within tol;
\* reading an empty slot throws
firstVertexHit(arr, kind, p, bad, i) ==
    IF i \in bad THEN ThrowSel
    ELSE Sel(kind, i - 1, MinOf(VertexHits(arr[i].pts, p)) - 1, -1)

vertexHitAmong(arr, kind, p, bad, cand) ==
    IF cand = {} THEN NoSel
    ELSE firstVertexHit(arr, kind, p, bad, MinOf(cand))

BadSlots(arr) == {i \in 1..Len(arr) : arr[i].k # "obj"}

hitVertexIn(arr, kind, p) ==
    vertexHitAmong(arr, kind, p, BadSlots(arr),
        {i \in 1..Len(arr) : arr[i].k # "obj" \/ VertexHits(arr[i].pts, p) # {}})

FirstOf(a, b) == IF a # NoSel THEN a ELSE b

hitTestVertex(p) ==
    FirstOf(hitVertexIn(lots, "lot", p),
    FirstOf(hitVertexIn(internalRoads, "internal", p),
    FirstOf(IF boundaryClosed /\ VertexHits(boundary, p) # {}
            THEN Sel("boundary", 0, MinOf(VertexHits(boundary, p)) - 1, -1)
            ELSE NoSel,
            hitVertexIn(publicRoads, "publicEP", p))))

projHits(info) == WithinPx(info.d2n, info.d2d, hitTol)

EdgeHits(poly, p) ==
    IF Len(poly) < 2 THEN {}
    ELSE {k \in 1..Len(poly) :
            projHits(pointSegProjection(p, poly[k], poly[(k % Len(poly)) + 1]))}

firstEdgeHit(arr, kind, p, bad, i) ==
    IF i \in bad THEN ThrowSel
    ELSE Sel(kind, i - 1, -1, MinOf(EdgeHits(arr[i].pts, p)) - 1)

edgeHitAmong(arr, kind, p, bad, cand) ==
    IF cand = {} THEN NoSel
    ELSE firstEdgeHit(arr, kind, p, bad, MinOf(cand))

hitEdgeIn(arr, kind, p) ==
    edgeHitAmong(arr, kind, p, BadSlots(arr),
        {i \in 1..Len(arr) : arr[i].k # "obj" \/ EdgeHits(arr[i].pts, p) # {}})

hitTestEdge(p) ==
    FirstOf(hitEdgeIn(lots, "lot", p),
    FirstOf(hitEdgeIn(internalRoads, "internal", p),
            IF boundaryClosed /\ EdgeHits(boundary, p) # {}
            THEN Sel("boundary", 0, -1, MinOf(EdgeHits(boundary, p)) - 1)
            ELSE NoSel))

getGeomSnapshot(sel) ==
    CASE sel.kind = "lot" -> lots[sel.index + 1].pts
      [] sel.kind = "internal" -> internalRoads[sel.index + 1].pts
      [] sel.kind = "boundary" -> boundary
      [] sel.kind = "publicEP" -> publicRoads[sel.index + 1].pts
      [] OTHER -> <<>>


\* the resolver call under study: its inputs, and once resolved the
\* intermediate points of computePreviewPoint (proj = NoProj stands for null)
SnapCall(raw, prev, axisLock, cfg, segments, pools) ==
    [stage |-> "input", raw |-> raw, prev |-> prev, axisLock |-> axisLock,
     cfg |-> cfg, segments |-> segments, pools |-> pools,
     aligned |-> raw, p1 |-> raw, proj |-> NoProj, p2 |-> raw, out |-> raw]

NoSnap == SnapCall(<<0, 0>>, <<>>, FALSE, DefaultCfg, <<>>, <<>>)

\* a call of a geometry function: args is the tuple of its arguments, out its
\* result once the call is done
Call(fn, args) == [fn |-> fn, stage |-> "input", args |-> args, out |-> <<>>]
Done(c, out) == [c EXCEPT !.stage = "done", !.out = out]
NoCall == Call("none", <<>>)

\* ----------------------------------------------------------------- actions
Init ==
    /\ mode = "boundary"
    /\ current = <<>>
    /\ boundary = <<>>
    /\ boundaryClosed = FALSE
    /\ publicRoads = <<>>
    /\ activePublicIdx = -1
    /\ internalRoads = <<>>
    /\ lots = <<>>
    /\ history = <<>>
    /\ future = <<>>
    /\ selection = NoSel
    /\ dragging = NoDrag
    /\ autoInternalWidth = TRUE
    /\ crashed = FALSE
    /\ gestures = 0
    /\ snap = NoSnap
    /\ call = NoCall
    /\ publicEntryPoints = <<>>
    /\ autoScaleNew = FALSE

\* the state the next render sees; a throwing render unmounts the component
Rendered == crashed' = RenderThrows(ScenePrime, selection')

\* an error thrown by a state updater surfaces in the render
UpdaterThrows ==
    /\ crashed' = TRUE
    /\ UNCHANGED <<mode, current, boundary, boundaryClosed, publicRoads,
                   activePublicIdx, internalRoads, lots, history, future,
                   selection, dragging, autoInternalWidth>>

SetScene(sc) ==
    /\ boundary' = sc.boundary
    /\ boundaryClosed' = sc.boundaryClosed
    /\ publicRoads' = sc.publicRoads
    /\ internalRoads' = sc.internalRoads
    /\ lots' = sc.lots

SetHState(h) ==
    /\ SetScene(h.scene)
    /\ history' = h.history
    /\ future' = h.future

\* <select value={mode} onChange>: the pointer is on the toolbar, so no drag
\* is in flight (onMouseLeave ended it)
SetMode(m) ==
    /\ ~crashed /\ dragging = NoDrag /\ m # mode
    /\ mode' = m
    /\ UNCHANGED <<current, boundary, boundaryClosed, publicRoads,
                   activePublicIdx, internalRoads, lots, history, future,
                   selection, dragging, autoInternalWidth>>
    /\ Rendered

nextGlobalRoadId ==
    LET ids == {internalRoads[i].id : i \in {j \in 1..Len(internalRoads) :
                                               internalRoads[j].k # "hole"}}
               \cup {publicRoads[i].id : i \in {j \in 1..Len(publicRoads) :
                                                  publicRoads[j].k # "hole"}}
    IN  MinOf({n \in 1..(Cardinality(ids) + 1) : n \notin ids})

nextLotId == Len(lots) + 1

\* onCanvasClick in a drawing mode with the path (boundary, internalRoad, lot)
ClickPath(raw, shiftKey) ==
    /\ ~crashed /\ dragging = NoDrag
    /\ mode \in {"boundary", "internalRoad", "lot"}
    /\ Len(current) < MaxPath
    /\ IF PreviewThrows \/ (mode = "boundary" /\ boundaryClosed)
       THEN UNCHANGED vars
       ELSE /\ current' = dedupPush(current, previewPoint(raw, shiftKey))
            /\ UNCHANGED <<mode, boundary, boundaryClosed, publicRoads,
                           activePublicIdx, internalRoads, lots, history,
                           future, selection, dragging, autoInternalWidth>>
            /\ Rendered

\* the entry point a click in publicRoad mode commits: the preview point,
\* projected on the closed boundary when within lineTol; <<>> when the
\* projection is not a whole number of hundredths (the model skips the input)
projExact(p, proj) ==
    IF proj.D = 0 THEN <<p>>
    ELSE IF proj.N[1] % proj.D = 0 /\ proj.N[2] % proj.D = 0
         THEN << <<proj.N[1] \div proj.D, proj.N[2] \div proj.D>> >>
         ELSE <<>>

entryPointFor(p) ==
    IF boundaryClosed /\ Len(boundary) >= 2
    THEN projExact(p, snapToNearestSegment(p, addSegs(boundary, TRUE), lineTol))
    ELSE <<p>>

\* onCanvasClick in publicRoad mode
addEntryPoint(roads, idx, snapped) ==
    /\ Len(roads[idx + 1].pts) < MaxEPs
    /\ publicRoads' =
         IF \E q \in 1..Len(roads[idx + 1].pts) :
                dist2(roads[idx + 1].pts[q], snapped) = 0
         THEN roads
         ELSE [roads EXCEPT ![idx + 1].pts = Append(roads[idx + 1].pts, snapped)]
    /\ activePublicIdx' = idx
    /\ UNCHANGED <<mode, current, boundary, boundaryClosed,
                   internalRoads, lots, history, future,
                   selection, dragging, autoInternalWidth>>
    /\ Rendered

\* the click commits pt (a 1-tuple) to road idx of roads
commitEntryPoint(pt, roads, idx) ==
    /\ pt # <<>>
    /\ IF ~IsObj(roads, idx) THEN UpdaterThrows
       ELSE addEntryPoint(roads, idx,
                snapToPools(pt[1], boundary \o roads[idx + 1].pts, snapTol))

ClickPublicRoad(raw, shiftKey) ==
    /\ ~crashed /\ dragging = NoDrag
    /\ mode = "publicRoad"
    /\ IF PreviewThrows THEN UNCHANGED vars
       ELSE IF activePublicIdx < 0
       THEN /\ Len(publicRoads) < MaxPublic
            /\ commitEntryPoint(entryPointFor(previewPoint(raw, shiftKey)),
                   Append(publicRoads, Obj(nextGlobalRoadId, <<>>, Undef)),
                   Len(publicRoads))
       ELSE commitEntryPoint(entryPointFor(previewPoint(raw, shiftKey)),
                             publicRoads, activePublicIdx)

\* width of a new or re-measured internal road: estimateRoadWidth(poly) is
\* kept symbolic
estimateRoadWidth(poly) == <<"est", poly>>
internalWidthDefault == <<"default">>

closeShape ==
    /\ ~crashed /\ dragging = NoDrag
    /\ Len(current) >= 3
    /\ \/ /\ mode = "boundary"
          /\ Len(history) < MaxHist
          /\ LET h == pushHistory(HState)
             IN  /\ history' = h.history
                 /\ future' = h.future
          /\ boundary' = current
          /\ boundaryClosed' = TRUE
          /\ UNCHANGED <<publicRoads, internalRoads, lots>>
       \/ /\ mode = "internalRoad"
          /\ Len(internalRoads) < MaxRoads
          /\ internalRoads' = Append(internalRoads,
                 Obj(nextGlobalRoadId, current,
                     IF autoInternalWidth THEN estimateRoadWidth(current)
                     ELSE internalWidthDefault))
          /\ UNCHANGED <<boundary, boundaryClosed, publicRoads, lots, history, future>>
       \/ /\ mode = "lot"
          /\ Len(lots) < MaxLots
          /\ lots' = Append(lots, Obj(nextLotId, current, Undef))
          /\ UNCHANGED <<boundary, boundaryClosed, publicRoads, internalRoads,
                         history, future>>
    /\ current' = <<>>
    /\ UNCHANGED <<mode, activePublicIdx, selection, dragging, autoInternalWidth>>
    /\ Rendered

\* variant: the path is popped whatever the mode
smartUndoAnyMode ==
    /\ ~crashed
    /\ IF current # <<>>
       THEN /\ current' = Front(current)
            /\ UNCHANGED <<boundary, boundaryClosed, publicRoads, internalRoads,
                           lots, history, future>>
       ELSE /\ SetHState(undoHistory(HState))
            /\ UNCHANGED current
    /\ UNCHANGED <<mode, activePublicIdx, selection, dragging, autoInternalWidth>>
    /\ Rendered

\* the Undo button and Ctrl+Z
smartUndo ==
    /\ ~crashed
    /\ IF current # <<>> /\ mode \in {"boundary", "internalRoad", "lot"}
       THEN /\ current' = Front(current)
            /\ UNCHANGED <<boundary, boundaryClosed, publicRoads, internalRoads,
                           lots, history, future>>
       ELSE /\ SetHState(undoHistory(HState))
            /\ UNCHANGED current
    /\ UNCHANGED <<mode, activePublicIdx, selection, dragging, autoInternalWidth>>
    /\ Rendered

\* variant: redo drops the selection
redoDroppingSelection ==
    /\ ~crashed
    /\ SetHState(redoHistory(HState))
    /\ selection' = NoSel
    /\ UNCHANGED <<mode, current, activePublicIdx, dragging, autoInternalWidth>>
    /\ Rendered

\* Ctrl+Shift+Z and Ctrl+Y
redo ==
    /\ ~crashed
    /\ SetHState(redoHistory(HState))
    /\ UNCHANGED <<mode, current, activePublicIdx, selection, dragging,
                   autoInternalWidth>>
    /\ Rendered


\* ------------------------------------------------------------ select / edit
pointerDownOn(hit, p, shiftKey) ==
    IF hit = ThrowSel THEN UNCHANGED vars
    ELSE IF hit = NoSel
    THEN /\ selection' = NoSel
         /\ UNCHANGED <<mode, current, boundary, boundaryClosed, publicRoads,
                        activePublicIdx, internalRoads, lots, history,
                        future, dragging, autoInternalWidth>>
         /\ Rendered
    ELSE /\ Len(history) < MaxHist
         /\ selection' = hit
         /\ history' = pushHistory(HState).history
         /\ future' = pushHistory(HState).future
         /\ dragging' =
              [type |-> IF hit.vertexIndex >= 0 THEN "vertex" ELSE "edge",
               kind |-> hit.kind, index |-> hit.index,
               vertexIndex |-> hit.vertexIndex, edgeIndex |-> hit.edgeIndex,
               startMouse |-> p, startGeom |-> getGeomSnapshot(hit),
               shiftEdge |-> IF hit.vertexIndex >= 0 THEN FALSE ELSE shiftKey]
         /\ UNCHANGED <<mode, current, boundary, boundaryClosed, publicRoads,
                        activePublicIdx, internalRoads, lots,
                        autoInternalWidth>>
         /\ Rendered

\* hit = hitTestVertex(p) || hitTestEdge(p)
onPointerDown(p, shiftKey) ==
    /\ ~crashed /\ dragging = NoDrag
    /\ mode = "select"
    /\ pointerDownOn(FirstOf(hitTestVertex(p), hitTestEdge(p)), p, shiftKey)

\* the scene after applyGeom(kind, index, newPolyOrEPs)
applyGeom(sc, kind, index, new) ==
    CASE kind = "lot" ->
           [sc EXCEPT !.lots = ArrSet(sc.lots, index, SpreadPts(sc.lots, index, new))]
      [] kind = "internal" ->
           [sc EXCEPT !.internalRoads =
                ArrSet(sc.internalRoads, index, SpreadPts(sc.internalRoads, index, new))]
      [] kind = "boundary" ->
           [sc EXCEPT !.boundary = new, !.boundaryClosed = Len(new) >= 3]
      [] kind = "publicEP" ->
           [sc EXCEPT !.publicRoads =
                ArrSet(sc.publicRoads, index, SpreadPts(sc.publicRoads, index, new))]
      [] OTHER -> sc

\* the displacement of the two endpoints of a dragged edge: the pointer delta,
\* or with Shift its projection on the edge's left normal.  <<>> when that
\* projection is not a whole number of hundredths (the model skips the input)
edgeMove(d, p) ==
    LET n  == Len(d.startGeom)
        a0 == d.startGeom[d.edgeIndex + 1]
        b0 == d.startGeom[((d.edgeIndex + 1) % n) + 1]
        dx == p[1] - d.startMouse[1]
        dy == p[2] - d.startMouse[2]
        vx == b0[1] - a0[1]
        vy == b0[2] - a0[2]
        vv == vx * vx + vy * vy
        c  == dy * vx - dx * vy          \* len * ((dx, dy) . (nx, ny))
    IN  IF ~d.shiftEdge THEN << <<dx, dy>> >>
        ELSE IF vv = 0 THEN << <<0, 0>> >>
        ELSE IF ((-vy) * c) % vv = 0 /\ (vx * c) % vv = 0
             THEN << <<((-vy) * c) \div vv, (vx * c) \div vv>> >>
             ELSE <<>>

\* variant: only the first endpoint of a dragged edge is displaced
dragGeomOneEnd(d, p, snapped) ==
    IF d.type = "vertex"
    THEN << [d.startGeom EXCEPT ![d.vertexIndex + 1] = snapped] >>
    ELSE IF d.kind = "publicEP" \/ Len(d.startGeom) < 2 THEN <<>>
    ELSE LET i  == d.edgeIndex + 1
             mv == edgeMove(d, p)[1]
         IN  << [d.startGeom EXCEPT ![i] = <<d.startGeom[i][1] + mv[1],
                                            d.startGeom[i][2] + mv[2]>>] >>

\* the geometry onDragMove hands to applyGeom; <<>> when it returns early.
\* The result is wrapped in a 1-tuple
dragGeom(d, p, snapped) ==
    IF d.type = "vertex"
    THEN << [d.startGeom EXCEPT ![d.vertexIndex + 1] = snapped] >>
    ELSE IF d.kind = "publicEP" \/ Len(d.startGeom) < 2 THEN <<>>
    ELSE LET n  == Len(d.startGeom)
             i  == d.edgeIndex + 1
             i2 == ((d.edgeIndex + 1) % n) + 1
             mv == edgeMove(d, p)[1]
         IN  << [idx \in 1..n |->
                   IF idx = i \/ idx = i2
                   THEN <<d.startGeom[idx][1] + mv[1], d.startGeom[idx][2] + mv[2]>>
                   ELSE d.startGeom[idx]] >>

\* onMouseMove with a drag in flight
dragApply(g) ==
    IF g = <<>> THEN UNCHANGED <<boundary, boundaryClosed,
                                publicRoads, internalRoads, lots>>
    ELSE SetScene(applyGeom(Scene, dragging.kind, dragging.index, g[1]))

onDragMove(p) ==
    /\ ~crashed /\ dragging # NoDrag
    /\ IF PreviewThrows THEN UNCHANGED vars
       ELSE /\ dragging.type = "edge" /\ Len(dragging.startGeom) >= 2
                 => edgeMove(dragging, p) # <<>>
            /\ dragApply(dragGeom(dragging, p, previewPoint(p, FALSE)))
            /\ UNCHANGED <<mode, current, activePublicIdx, history, future,
                           selection, dragging, autoInternalWidth>>
            /\ Rendered

\* variant: the end of the drag takes a snapshot of its own
endDragPushing(positive) ==
    /\ ~crashed /\ dragging # NoDrag
    /\ dragging' = NoDrag
    /\ history' = Append(history, makeSnapshot(Scene))
    /\ UNCHANGED <<mode, current, boundary, boundaryClosed, publicRoads,
                   activePublicIdx, internalRoads, lots, future, selection,
                   autoInternalWidth>>
    /\ Rendered

\* onPointerUp / onMouseLeave with a drag in flight: endDrag.  Whether
\* estimateRoadWidth gives a finite positive width is the input `positive`;
\* it gives 0 for the empty polygon
endDrag(positive) ==
    /\ ~crashed /\ dragging # NoDrag
    /\ dragging' = NoDrag
    /\ IF autoInternalWidth /\ selection.kind = "internal"
          /\ IsObj(internalRoads, selection.index)
          /\ Len(internalRoads[selection.index + 1].pts) >= 2
          /\ positive
       THEN internalRoads' =
              [internalRoads EXCEPT ![selection.index + 1].w =
                   estimateRoadWidth(internalRoads[selection.index + 1].pts)]
       ELSE UNCHANGED internalRoads
    /\ UNCHANGED <<mode, current, boundary, boundaryClosed, publicRoads,
                   activePublicIdx, lots, history, future, selection,
                   autoInternalWidth>>
    /\ Rendered


\* ---------------------------------------------------------------- deletion
\* variant: the vertex after the last one is taken without wrapping
successorVertexNoWrap(edgeIndex, n) == edgeIndex + 1

\* const rm = (edgeIndex + 1) % n
successorVertex(edgeIndex, n) == (edgeIndex + 1) % n

\* variant: the polygon is kept however few vertices are left
removeVertexInKeeping(arr, index, rm) ==
    [arr EXCEPT ![index + 1].pts = Splice(arr[index + 1].pts, rm)]

\* a list after one vertex of element `index` is spliced out at 0-based rm:
\* the element goes when fewer than 3 vertices are left
removeVertexIn(arr, index, rm) ==
    LET poly == Splice(arr[index + 1].pts, rm)
    IN  IF Len(poly) < 3 THEN RemoveAt(arr, index)
        ELSE [arr EXCEPT ![index + 1].pts = poly]

\* variant: what is left of the boundary is kept, open
boundaryAfterKeeping(sc, poly) ==
    IF Len(poly) < 3
    THEN [sc EXCEPT !.boundary = poly, !.boundaryClosed = FALSE]
    ELSE [sc EXCEPT !.boundary = poly, !.boundaryClosed = TRUE]

\* the scene after a boundary deletion that leaves poly: the boundary is
\* emptied and opened when fewer than 3 vertices are left
boundaryAfter(sc, poly) ==
    IF Len(poly) < 3
    THEN [sc EXCEPT !.boundary = <<>>, !.boundaryClosed = FALSE]
    ELSE [sc EXCEPT !.boundary = poly, !.boundaryClosed = TRUE]

\* results of the deletion handlers: the history-manager state they leave,
\* whether a state updater threw, and the active public road index
\* (-2: not set by the handler)
Outcome(h, throws, api) == [h |-> h, throws |-> throws, api |-> api]

deleteEdge(h0, kind, index, edgeIndex) ==
    LET h  == pushHistory(h0)
        sc == h.scene
    IN  CASE kind = "lot" ->
               IF ~IsObj(sc.lots, index) THEN Outcome(h, TRUE, -2)
               ELSE LET n == Len(sc.lots[index + 1].pts)
                    IN  IF n < 3 THEN Outcome(h, FALSE, -2)
                        ELSE Outcome([h EXCEPT !.scene.lots =
                                 removeVertexIn(sc.lots, index, successorVertex(edgeIndex, n))],
                                 FALSE, -2)
          [] kind = "internal" ->
               IF ~IsObj(sc.internalRoads, index) THEN Outcome(h, TRUE, -2)
               ELSE LET n == Len(sc.internalRoads[index + 1].pts)
                    IN  IF n < 3 THEN Outcome(h, FALSE, -2)
                        ELSE Outcome([h EXCEPT !.scene.internalRoads =
                                 removeVertexIn(sc.internalRoads, index,
                                     successorVertex(edgeIndex, n))],
                                 FALSE, -2)
          [] kind = "boundary" ->
               LET n == Len(sc.boundary)
               IN  IF n < 3 THEN Outcome(h, FALSE, -2)
                   ELSE Outcome([h EXCEPT !.scene =
                            boundaryAfter(sc, Splice(sc.boundary, successorVertex(edgeIndex, n)))],
                            FALSE, -2)
          [] OTHER -> Outcome(h, FALSE, -2)

\* onDeleteSelection for a selection sel # null
onDeleteSelection(h0, sel) ==
    LET h  == pushHistory(h0)
        sc == h.scene
    IN  IF sel.edgeIndex >= 0
        THEN deleteEdge(h, sel.kind, IF sel.index >= 0 THEN sel.index ELSE 0,
                        sel.edgeIndex)
        ELSE CASE sel.kind = "lot" ->
               IF sel.vertexIndex >= 0
               THEN IF ~IsObj(sc.lots, sel.index) THEN Outcome(h, TRUE, -2)
                    ELSE Outcome([h EXCEPT !.scene.lots =
                             removeVertexIn(sc.lots, sel.index, sel.vertexIndex)],
                             FALSE, -2)
               ELSE Outcome([h EXCEPT !.scene.lots = RemoveAt(sc.lots, sel.index)],
                            FALSE, -2)
          [] sel.kind = "internal" ->
               IF sel.vertexIndex >= 0
               THEN IF ~IsObj(sc.internalRoads, sel.index) THEN Outcome(h, TRUE, -2)
                    ELSE Outcome([h EXCEPT !.scene.internalRoads =
                             removeVertexIn(sc.internalRoads, sel.index, sel.vertexIndex)],
                             FALSE, -2)
               ELSE Outcome([h EXCEPT !.scene.internalRoads =
                                 RemoveAt(sc.internalRoads, sel.index)], FALSE, -2)
          [] sel.kind = "boundary" ->
               IF sel.vertexIndex >= 0
               THEN Outcome([h EXCEPT !.scene =
                        boundaryAfter(sc, Splice(sc.boundary, sel.vertexIndex))],
                        FALSE, -2)
               ELSE Outcome([h EXCEPT !.scene = boundaryAfter(sc, <<>>)], FALSE, -2)
          [] sel.kind = "publicEP" ->
               IF sel.vertexIndex >= 0
               THEN IF ~IsObj(sc.publicRoads, sel.index) THEN Outcome(h, TRUE, -2)
                    ELSE Outcome([h EXCEPT !.scene.publicRoads[sel.index + 1].pts =
                             Splice(sc.publicRoads[sel.index + 1].pts, sel.vertexIndex)],
                             FALSE, -2)
               ELSE Outcome([h EXCEPT !.scene.publicRoads =
                                 RemoveAt(sc.publicRoads, sel.index)], FALSE, -1)
          [] OTHER -> Outcome(h, FALSE, -2)

\* the Delete / Backspace key
deleteOutcome(r) ==
    IF r.throws THEN UpdaterThrows
    ELSE /\ SetHState(r.h)
         /\ selection' = NoSel
         /\ activePublicIdx' = IF r.api = -2 THEN activePublicIdx ELSE r.api
         /\ UNCHANGED <<mode, current, dragging, autoInternalWidth>>
         /\ Rendered

DeleteSelection ==
    /\ ~crashed /\ selection # NoSel
    /\ Len(history) + (IF selection.edgeIndex >= 0 THEN 2 ELSE 1) <= MaxHist
    /\ deleteOutcome(onDeleteSelection(HState, selection))

\* ------------------------------------------------------- the specification
EntityCount ==
    (IF boundaryClosed THEN 1 ELSE 0) + Len(publicRoads) + Len(internalRoads)
    + Len(lots)

\* another entity may be drawn
CanDraw == EntityCount < MaxEntities

\* another drag gesture may start; pointer-downs that start one are counted
CanDrag == gestures < MaxGestures
CountGesture ==
    /\ gestures' = IF dragging' # NoDrag /\ dragging = NoDrag
                   THEN gestures + 1 ELSE gestures
    /\ UNCHANGED <<snap, call, publicEntryPoints, autoScaleNew>>

NoCount == UNCHANGED <<gestures, snap, call, publicEntryPoints, autoScaleNew>>

\* The user of Spec works in two phases: the scene is drawn, then edited in
\* select mode.  The mode is changed and the history keys are pressed between
\* paths and between gestures; Delete is pressed at any time.
Idle == current = <<>> /\ dragging = NoDrag

Next ==
    \/ \E m \in Modes : Idle /\ mode # "select" /\ SetMode(m) /\ NoCount
    \/ \E raw \in ClickInputs(current) : ClickPath(raw, FALSE) /\ NoCount
    \/ \E raw \in EPInputs : CanDraw /\ ClickPublicRoad(raw, FALSE) /\ NoCount
    \/ CanDraw /\ closeShape /\ NoCount
    \/ Idle /\ smartUndo /\ NoCount
    \/ Idle /\ redo /\ NoCount
    \/ \E p \in DownInputs, shiftKey \in BOOLEAN :
          CanDrag /\ onPointerDown(p, shiftKey) /\ CountGesture
    \/ \E p \in MoveInputs : onDragMove(p) /\ NoCount
    \/ \E positive \in BOOLEAN : endDrag(positive) /\ NoCount
    \/ DeleteSelection /\ NoCount

Spec == Init /\ [][Next]_vars

\* The user of SpecEdit draws lots only and goes back and forth between lot
\* mode and select mode, between paths and between gestures; the pointer is
\* pressed and released without a move.
EditModes == {"lot", "select"}

NextEdit ==
    \/ \E m \in EditModes : Idle /\ SetMode(m) /\ NoCount
    \/ \E raw \in ClickInputs(current) :
          mode = "lot" /\ ClickPath(raw, FALSE) /\ NoCount
    \/ CanDraw /\ closeShape /\ NoCount
    \/ Idle /\ smartUndo /\ NoCount
    \/ Idle /\ redo /\ NoCount
    \/ \E p \in DownInputs, shiftKey \in BOOLEAN :
          CanDrag /\ onPointerDown(p, shiftKey) /\ CountGesture
    \/ \E positive \in BOOLEAN : endDrag(positive) /\ NoCount
    \/ DeleteSelection /\ NoCount

SpecEdit == Init /\ [][NextEdit]_vars

\* The user of SpecDraw only draws: one entity at most, with the mode changed
\* and the history keys pressed at any time, a path in progress or not.
CanDrawOne == EntityCount < MaxDrawn

\* a click on the first vertex of a path that can be closed
ClosingInputs(cur) == IF Len(cur) >= 3 THEN {cur[1]} ELSE {}

NextDraw ==
    \/ \E m \in Modes : SetMode(m) /\ NoCount
    \/ \E raw \in ClickInputs(current) \cup ClosingInputs(current) :
          ClickPath(raw, FALSE) /\ NoCount
    \/ \E raw \in EPInputs : CanDrawOne /\ ClickPublicRoad(raw, FALSE) /\ NoCount
    \/ CanDrawOne /\ closeShape /\ NoCount
    \/ smartUndo /\ NoCount
    \/ redo /\ NoCount

SpecDraw == Init /\ [][NextDraw]_vars

\* SpecSnap studies computePreviewPoint as a function: the call's inputs are
\* drawn from the sets below and ResolveSnap runs the resolver on them.
SnapRaws == {<<x, y>> : x \in {0, 30, 50, 60, 140}, y \in {-20, 0, 40, 50}}
SnapPrevs == {<<>>, << <<0, 0>> >>, << <<100, 40>> >>}
SnapCfgs ==
    {[gridSnap |-> gs, gridStrict |-> st, gridTol |-> gridTol,
      lineTol |-> lineTol, snapTol |-> snapTol] : gs \in BOOLEAN, st \in BOOLEAN}
SnapSegments ==
    { <<>>,
      << << <<0, -100>>, <<0, 100>> >> >>,
      << << <<-100, 0>>, <<200, 0>> >> >>,
      << << <<0, 30>>, <<200, 130>> >>, << <<-100, 0>>, <<200, 0>> >> >> }
SnapPools == {<<>>, << <<0, 0>>, <<100, 50>> >>}

InitSnap ==
    /\ mode = "boundary"
    /\ current = <<>>
    /\ boundary = <<>>
    /\ boundaryClosed = FALSE
    /\ publicRoads = <<>>
    /\ activePublicIdx = -1
    /\ internalRoads = <<>>
    /\ lots = <<>>
    /\ history = <<>>
    /\ future = <<>>
    /\ selection = NoSel
    /\ dragging = NoDrag
    /\ autoInternalWidth = TRUE
    /\ crashed = FALSE
    /\ gestures = 0
    /\ call = NoCall
    /\ publicEntryPoints = <<>>
    /\ autoScaleNew = FALSE
    /\ snap \in {SnapCall(raw, prev, axisLock, cfg, segments, pools) :
                    raw \in SnapRaws, prev \in SnapPrevs, axisLock \in BOOLEAN,
                    cfg \in SnapCfgs, segments \in SnapSegments,
                    pools \in SnapPools}

resolved(c, aligned, p1, proj) ==
    [c EXCEPT !.stage = "resolved", !.aligned = aligned, !.p1 = p1,
              !.proj = proj,
              !.p2 = lineOrGridPoint(aligned, p1, c.segments, c.cfg),
              !.out = computePreviewPoint(c.raw, c.prev, c.axisLock, c.cfg,
                                          c.segments, c.pools)]

resolveCall(c, aligned) ==
    resolved(c, aligned, gridPoint(aligned, c.cfg),
             snapToNearestSegment(aligned, c.segments, c.cfg.lineTol))

ResolveSnap ==
    /\ snap.stage = "input"
    /\ snap' = resolveCall(snap, alignedPoint(snap.raw, snap.prev, snap.axisLock))
    /\ UNCHANGED <<mode, current, boundary, boundaryClosed, publicRoads,
                   activePublicIdx, internalRoads, lots, history, future,
                   selection, dragging, autoInternalWidth, crashed, gestures,
                   call, publicEntryPoints, autoScaleNew>>

NextSnap == ResolveSnap

SpecSnap == InitSnap /\ [][NextSnap]_vars

\* SpecGeom studies the geometry helpers as functions: one call with its
\* arguments drawn from the sets below, and one action per function.
OnlyCall ==
    UNCHANGED <<mode, current, boundary, boundaryClosed, publicRoads,
                activePublicIdx, internalRoads, lots, history, future,
                selection, dragging, autoInternalWidth, crashed, gestures, snap,
                publicEntryPoints, autoScaleNew>>

Calling(fn) == call.fn = fn /\ call.stage = "input"

GeomPoints == {<<x, y>> : x \in (-MaxCoord)..MaxCoord, y \in (-MaxCoord)..MaxCoord}
AxisAlignCalls ==
    {Call("axisAlign", <<prev, p>>) :
        prev \in {<<>>} \cup {<<q>> : q \in GeomPoints}, p \in GeomPoints}

CallAxisAlign ==
    /\ Calling("axisAlign")
    /\ call' = Done(call, axisAlign(call.args[1], call.args[2]))
    /\ OnlyCall

\* pools of vertices in hundredths; tolerances in pixels (12.5 hundredths)
PoolCalls ==
    {Call("snapToPools", <<p, pools, tol>>) :
        p \in {<<x, y>> : x \in {0, 10, 20, 30}, y \in {0, 10}},
        pools \in { <<>>,
                    << <<>> >>,
                    << << <<0, 0>>, <<20, 0>> >> >>,
                    << << <<20, 0>> >>, <<>>, << <<0, 0>>, <<10, 10>> >> >>,
                    << << <<30, 10>>, <<10, 0>> >>, << <<10, 0>>, <<30, 0>> >> >> },
        tol \in 0..2}

CallSnapToPools ==
    /\ Calling("snapToPools")
    /\ call' = Done(call, snapToPools(call.args[1], Flatten(call.args[2]),
                                      call.args[3]))
    /\ OnlyCall

\* the rectangle with corner (x, y), sides w and h, counter-clockwise
Rect(x, y, w, h) == << <<x, y>>, <<x + w, y>>, <<x + w, y + h>>, <<x, y + h>> >>
Rotate(poly, k) == [i \in 1..Len(poly) |-> poly[((i + k - 1) % Len(poly)) + 1]]

AreaCalls ==
    {Call("shoelaceArea", <<poly, w, h>>) :
        poly \in {<<>>, << <<0, 0>> >>, << <<0, 0>>, <<1, 2>> >>}, w \in {0}, h \in {0}}
    \cup
    UNION {{Call("shoelaceArea", <<Rotate(Rect(x, y, w, h), k), w, h>>),
            Call("shoelaceArea", <<Rotate(Reverse(Rect(x, y, w, h)), k), w, h>>)} :
            x \in -1..1, y \in -1..1, w \in 1..MaxSide, h \in 1..MaxSide, k \in 0..3}

CallShoelaceArea ==
    /\ Calling("shoelaceArea")
    /\ call' = Done(call, shoelaceArea(call.args[1]))
    /\ OnlyCall

\* polygons in hundredths, targets in square units
ScaleCalls ==
    {Call("scalePolygonToArea", <<poly, target>>) :
        poly \in { Rect(0, 0, 1000, 1000), Rect(200, 100, 400, 300),
                   Reverse(Rect(0, 0, 1000, 500)),
                   << <<0, 0>>, <<600, 0>>, <<0, 300>> >>,
                   << <<0, 0>>, <<500, 500>> >>,
                   << <<0, 0>>, <<100, 100>>, <<200, 200>> >> },
        target \in {0, 25, 100, 200, 400}}

CallScalePolygonToArea ==
    /\ Calling("scalePolygonToArea")
    /\ call' = Done(call, scalePolygonToArea(call.args[1],
                                             call.args[2] * Scale * Scale))
    /\ OnlyCall

\* scenes in hundredths around a 20 x 10 boundary
FrontBoundary == Rect(0, 0, 2000, 1000)

FrontLots ==
    { Rect(1100, 100, 800, 800), Rect(1100, 0, 800, 900),
      Rect(200, -100, 400, 200), Rect(1300, 300, 200, 200),
      Rect(1800, 700, 200, 200), << <<1100, 100>>, <<1900, 100>> >> }

RoadA == Obj(1, Rect(900, 300, 200, 400), 200)
RoadC == Obj(2, Rect(1900, 300, 200, 400), 200)
RoadFar == Obj(4, Rect(100, 100, 200, 200), 200)
RoadNear == Obj(5, Rect(900, 300, 180, 400), 180)

FrontInternalRoads ==
    { <<>>, <<RoadA>>, <<RoadFar, RoadA>>, <<RoadA, RoadC>>, <<RoadC, RoadA>>,
      <<RoadNear>>, <<RoadNear, RoadA>> }

FrontPublicRoads ==
    { <<>>,
      <<Obj(3, << <<0, 0>>, <<2000, 0>> >>, Undef)>>,
      <<Obj(3, << <<500, 0>>, <<800, 0>> >>, Undef)>>,
      <<Obj(3, << <<1800, 0>>, <<2000, 600>> >>, Undef)>>,
      <<Obj(3, << <<0, 0>> >>, Undef)>>,
      <<Obj(6, << <<2000, 0>>, <<2000, 1000>> >>, Undef),
        Obj(3, << <<0, 0>>, <<2000, 0>> >>, Undef)>> }

FrontBoundaries ==
    { <<FrontBoundary, TRUE>>, <<FrontBoundary, FALSE>>, <<<<>>, FALSE>>,
      << << <<0, 0>>, <<2000, 0>> >>, TRUE>> }

FrontCalls ==
    {Call("computeFrontRoadForLot",
          <<lot, [boundary |-> b[1], boundaryClosed |-> b[2],
                  publicRoads |-> prs, internalRoads |-> irs], tol>>) :
        lot \in FrontLots, b \in FrontBoundaries, prs \in FrontPublicRoads,
        irs \in FrontInternalRoads, tol \in {0, 3}}

CallComputeFrontRoadForLot ==
    /\ Calling("computeFrontRoadForLot")
    /\ call' = Done(call, computeFrontRoadForLot(call.args[1], call.args[2],
                                                 call.args[3]))
    /\ OnlyCall

ThinL ==
    << <<1100, 100>>, <<1700, 100>>, <<1700, 200>>, <<1200, 200>>,
       <<1200, 500>>, <<1100, 500>> >>

ExportLots ==
    { <<>>,
      <<Obj(1, Rect(1100, 100, 800, 800), NullId)>>,
      <<Obj(1, Rect(1100, 100, 800, 800), NullId),
        Obj(2, Rect(200, -100, 400, 200), NullId),
        Obj(3, Rect(1100, 0, 800, 900), 1)>>,
      <<Obj(1, Reverse(Rect(1100, 100, 800, 800)), 1), Obj(2, ThinL, 1)>>,
      <<Obj(1, Rect(1300, 300, 200, 200), NullId),
        Obj(0, Rotate(Rect(1100, 100, 800, 800), 2), 2)>>,
      <<Obj(1, ThinL, NullId),
        Obj(2, << <<1100, 300>>, <<1500, 300>>, <<1100, 600>> >>, NullId),
        Obj(3, << <<1100, 100>>, <<1900, 100>> >>, NullId)>> }

ExportInternalRoads ==
    { <<>>, <<RoadA>>, <<RoadC, RoadA>>,
      <<Obj(1, Reverse(Rect(900, 300, 200, 400)), 200), RoadFar>> }

ExportBoundaries ==
    { FrontBoundary, Reverse(FrontBoundary), Rotate(FrontBoundary, 1), <<>>,
      << <<0, 0>>, <<2000, 0>> >> }

ExportCalls ==
    {Call("exportJSON", <<[boundary |-> b, publicRoads |-> prs,
                           internalRoads |-> irs, lots |-> ls]>>) :
        b \in ExportBoundaries,
        prs \in {pr \in FrontPublicRoads : Len(pr) # 1 \/ Len(pr[1].pts) = 2},
        irs \in ExportInternalRoads, ls \in ExportLots}

CallExportJSON ==
    /\ Calling("exportJSON")
    /\ call' = Done(call, exportJSON(call.args[1]))
    /\ OnlyCall

\* three internal roads closed one after the other in the first revision
ThreeRoadsApp ==
    LET r1 == <<Obj(nextRoadIdApp(<<>>), Rect(100, 100, 200, 200), 6 * Scale)>>
        r2 == Append(r1, Obj(nextRoadIdApp(r1), Rect(500, 100, 200, 200), 6 * Scale))
    IN  Append(r2, Obj(nextRoadIdApp(r2), Rect(900, 100, 200, 200), 6 * Scale))

ExportAppCalls ==
    {Call("exportJSONApp", <<[boundary |-> b, boundaryClosed |-> bc,
                              publicEntryPoints |-> eps,
                              internalRoads |-> irs, lots |-> ls]>>) :
        b \in ExportBoundaries, bc \in BOOLEAN,
        eps \in {<<>>, << <<0, 0>>, <<2000, 0>> >>},
        irs \in ExportInternalRoads \cup {ThreeRoadsApp}, ls \in ExportLots}

CallExportJSONApp ==
    /\ Calling("exportJSONApp")
    /\ call' = Done(call, exportJSONApp(call.args[1]))
    /\ OnlyCall

InitGeom ==
    /\ mode = "boundary"
    /\ current = <<>>
    /\ boundary = <<>>
    /\ boundaryClosed = FALSE
    /\ publicRoads = <<>>
    /\ activePublicIdx = -1
    /\ internalRoads = <<>>
    /\ lots = <<>>
    /\ history = <<>>
    /\ future = <<>>
    /\ selection = NoSel
    /\ dragging = NoDrag
    /\ autoInternalWidth = TRUE
    /\ crashed = FALSE
    /\ gestures = 0
    /\ snap = NoSnap
    /\ publicEntryPoints = <<>>
    /\ autoScaleNew = FALSE
    /\ \/ call \in AxisAlignCalls
       \/ call \in PoolCalls
       \/ call \in AreaCalls
       \/ call \in ScaleCalls
       \/ call \in FrontCalls
       \/ call \in ExportCalls
       \/ call \in ExportAppCalls

NextGeom ==
    \/ CallAxisAlign
    \/ CallSnapToPools
    \/ CallShoelaceArea
    \/ CallScalePolygonToArea
    \/ CallComputeFrontRoadForLot
    \/ CallExportJSON
    \/ CallExportJSONApp

SpecGeom == InitGeom /\ [][NextGeom]_vars

\* ------------------------------------------- the first revision (App.jsx)
\* state of the first revision: mode, current, boundary, boundaryClosed,
\* publicEntryPoints, internalRoads, lots, autoScaleNew; a lot keeps its
\* front_road in the field w
OnlyApp ==
    UNCHANGED <<publicRoads, activePublicIdx, history, future, selection,
                dragging, autoInternalWidth, crashed, gestures, snap, call>>

\* the preview points of the clicks, in hundredths: the corners of a triangle
\* of 200 square units
AppPoints == {<<0, 0>>, <<2000, 0>>, <<0, 2000>>}

\* snapTol = 2 scene units, in pixels of 1 / ZOOM_BASE units
snapTolApp == 2 * ZOOM_BASE

\* autoTargetArea = 200 square units, autoApplyTo = {lot: false, boundary: true,
\* internalRoad: false}
autoTargetArea == 200 * Scale * Scale
autoApplyTo == [lot |-> FALSE, boundary |-> TRUE, internalRoad |-> FALSE]

AppModes == {"boundary", "publicRoad", "internalRoad", "lot"}

\* the boundary, entry points, internal roads and lots of the scene
AppEntityCount ==
    (IF boundaryClosed THEN 1 ELSE 0) + Len(publicEntryPoints)
        + Len(internalRoads) + Len(lots)

setModeApp(m) ==
    /\ mode' = m
    /\ UNCHANGED <<current, boundary, boundaryClosed, publicEntryPoints,
                   internalRoads, lots, autoScaleNew>>
    /\ OnlyApp

setAutoScaleNew(checked) ==
    /\ autoScaleNew' = checked
    /\ UNCHANGED <<mode, current, boundary, boundaryClosed, publicEntryPoints,
                   internalRoads, lots>>
    /\ OnlyApp

\* setPublicEntryPoints updater of onCanvasClick
entryPointsWith(list, snapped) ==
    IF \E i \in 1..Len(list) : dist2(list[i], snapped) = 0 THEN list
    ELSE Append(list, snapped)

\* p is the preview point computed for the click
onCanvasClickApp(p) ==
    /\ IF mode = "publicRoad"
       THEN AppEntityCount < MaxEntities /\ Len(publicEntryPoints) < MaxEPs
       ELSE Len(current) < MaxPathApp
    /\ IF mode = "publicRoad"
       THEN /\ publicEntryPoints' =
                 entryPointsWith(publicEntryPoints,
                     snapToPools(p, boundary \o publicEntryPoints, snapTolApp))
            /\ UNCHANGED current
       ELSE /\ current' = IF mode = "boundary" /\ boundaryClosed THEN current
                          ELSE dedupPush(current, p)
            /\ UNCHANGED publicEntryPoints
    /\ UNCHANGED <<mode, boundary, boundaryClosed, internalRoads, lots,
                   autoScaleNew>>
    /\ OnlyApp

\* the polygon closeShape stores for the path cur
closedPoly(cur, auto, applies) ==
    IF auto /\ applies THEN scalePolygonToArea(cur, autoTargetArea) ELSE cur

closeShapeApp ==
    /\ AppEntityCount < MaxEntities
    /\ Len(internalRoads) < MaxRoads \/ mode # "internalRoad"
    /\ Len(lots) < MaxLots \/ mode # "lot"
    /\ IF Len(current) < 3 \/ mode = "publicRoad"
       THEN UNCHANGED <<current, boundary, boundaryClosed, internalRoads, lots>>
       ELSE /\ current' = <<>>
            /\ IF mode = "boundary"
               THEN /\ boundary' = closedPoly(current, autoScaleNew,
                                              autoApplyTo.boundary)
                    /\ boundaryClosed' = TRUE
               ELSE UNCHANGED <<boundary, boundaryClosed>>
            /\ IF mode = "internalRoad"
               THEN internalRoads' = Append(internalRoads,
                        Obj(nextRoadIdApp(internalRoads),
                            closedPoly(current, autoScaleNew,
                                       autoApplyTo.internalRoad), 6 * Scale))
               ELSE UNCHANGED internalRoads
            /\ IF mode = "lot"
               THEN lots' = Append(lots,
                        Obj(Len(lots) + 1,
                            closedPoly(current, autoScaleNew, autoApplyTo.lot),
                            IF internalRoads # <<>> THEN internalRoads[1].id
                            ELSE NullId))
               ELSE UNCHANGED lots
    /\ UNCHANGED <<mode, publicEntryPoints, autoScaleNew>>
    /\ OnlyApp

\* variant: the last lot goes whatever the mode is
undoAppAnyMode ==
    /\ IF current # <<>>
       THEN /\ current' = Front(current)
            /\ UNCHANGED <<boundary, boundaryClosed, publicEntryPoints,
                           internalRoads, lots>>
       ELSE /\ lots' = IF lots # <<>> THEN Front(lots) ELSE lots
            /\ UNCHANGED <<current, boundary, boundaryClosed, publicEntryPoints,
                           internalRoads>>
    /\ UNCHANGED <<mode, autoScaleNew>>
    /\ OnlyApp

undoApp ==
    /\ IF current # <<>>
       THEN /\ current' = Front(current)
            /\ UNCHANGED <<boundary, boundaryClosed, publicEntryPoints,
                           internalRoads, lots>>
       ELSE IF mode = "publicRoad" /\ publicEntryPoints # <<>>
       THEN /\ publicEntryPoints' = Front(publicEntryPoints)
            /\ UNCHANGED <<current, boundary, boundaryClosed, internalRoads,
                           lots>>
       ELSE IF mode = "internalRoad" /\ internalRoads # <<>>
       THEN /\ internalRoads' = Front(internalRoads)
            /\ UNCHANGED <<current, boundary, boundaryClosed,
                           publicEntryPoints, lots>>
       ELSE IF mode = "lot" /\ lots # <<>>
       THEN /\ lots' = Front(lots)
            /\ UNCHANGED <<current, boundary, boundaryClosed,
                           publicEntryPoints, internalRoads>>
       ELSE IF mode = "boundary" /\ boundaryClosed
       THEN /\ boundaryClosed' = FALSE
            /\ current' = boundary
            /\ boundary' = <<>>
            /\ UNCHANGED <<publicEntryPoints, internalRoads, lots>>
       ELSE UNCHANGED <<current, boundary, boundaryClosed, publicEntryPoints,
                        internalRoads, lots>>
    /\ UNCHANGED <<mode, autoScaleNew>>
    /\ OnlyApp

clearAllApp ==
    /\ current' = <<>>
    /\ boundary' = <<>>
    /\ boundaryClosed' = FALSE
    /\ publicEntryPoints' = <<>>
    /\ internalRoads' = <<>>
    /\ lots' = <<>>
    /\ UNCHANGED <<mode, autoScaleNew>>
    /\ OnlyApp

NextApp ==
    \/ \E m \in AppModes : setModeApp(m)
    \/ \E checked \in BOOLEAN : setAutoScaleNew(checked)
    \/ \E p \in AppPoints : onCanvasClickApp(p)
    \/ closeShapeApp
    \/ undoApp
    \/ clearAllApp

SpecApp == Init /\ [][NextApp]_vars

\* ------------------------------------------------------------------ claims
HStatePrime == [scene |-> ScenePrime, history |-> history', future |-> future']

\* poly without its vertex at 0-based index j
Without(poly, j) ==
    [i \in 1..(Len(poly) - 1) |-> IF i <= j THEN poly[i] ELSE poly[i + 1]]

\* what a selection names in a scene
SelList(sc, sel) ==
    CASE sel.kind = "lot" -> sc.lots
      [] sel.kind = "internal" -> sc.internalRoads
      [] sel.kind = "publicEP" -> sc.publicRoads
      [] OTHER -> <<>>

SelExists(sc, sel) ==
    IF sel.kind = "boundary" THEN sc.boundaryClosed
    ELSE IsObj(SelList(sc, sel), sel.index)

SelPts(sc, sel) ==
    IF sel.kind = "boundary" THEN sc.boundary
    ELSE SelList(sc, sel)[sel.index + 1].pts

\* the entity and the vertex or edge the selection names exist
SelValid(sc, sel) ==
    /\ SelExists(sc, sel)
    /\ sel.vertexIndex < Len(SelPts(sc, sel))
    /\ sel.edgeIndex < Len(SelPts(sc, sel))

\* the scene without the selected entity
WithoutEntity(sc, sel) ==
    CASE sel.kind = "lot" -> [sc EXCEPT !.lots = Without(@, sel.index)]
      [] sel.kind = "internal" ->
           [sc EXCEPT !.internalRoads = Without(@, sel.index)]
      [] sel.kind = "boundary" ->
           [sc EXCEPT !.boundary = <<>>, !.boundaryClosed = FALSE]
      [] OTHER -> sc

\* the scene with the selected polygon replaced by pts, the entity removed
\* when fewer than 3 vertices are left
WithSelPts(sc, sel, pts) ==
    IF Len(pts) < 3 THEN WithoutEntity(sc, sel)
    ELSE CASE sel.kind = "lot" -> [sc EXCEPT !.lots[sel.index + 1].pts = pts]
           [] sel.kind = "internal" ->
                [sc EXCEPT !.internalRoads[sel.index + 1].pts = pts]
           [] sel.kind = "boundary" -> [sc EXCEPT !.boundary = pts]
           [] OTHER -> sc

PolygonKinds == {"lot", "internal", "boundary"}

DragStart == dragging = NoDrag /\ dragging' # NoDrag
DragMoveStep == \E p \in MoveInputs : onDragMove(p)
DragEndStep == \E positive \in BOOLEAN : endDrag(positive)
Pushed ==
    /\ history' = Append(history, makeSnapshot(Scene))
    /\ future' = <<>>

\* C1: every step that changes the persistent scene by closing a shape,
\* adding a public-road entry point or deleting, and every pointer-down that
\* starts a drag, appends the snapshot of the scene before the change to the
\* undo stack and empties the redo stack.
C1_EveryChangePushesSnapshot ==
    [][ /\ ( /\ \/ closeShape
                \/ \E raw \in EPInputs : ClickPublicRoad(raw, FALSE)
                \/ DeleteSelection
             /\ Scene' # Scene ) => Pushed
        /\ DragStart => Pushed
      ]_vars

\* Ctrl+Z / Ctrl+Y with no path in progress, followed by the render: the
\* history-manager state and whether the component is still mounted
KeyState(h, c) == [h |-> h, crashed |-> c]

pressUndo(x) ==
    IF x.crashed THEN x
    ELSE KeyState(undoHistory(x.h), RenderThrows(undoHistory(x.h).scene, selection))

pressRedo(x) ==
    IF x.crashed THEN x
    ELSE KeyState(redoHistory(x.h), RenderThrows(redoHistory(x.h).scene, selection))

RECURSIVE undoTimes(_, _)
undoTimes(x, k) == IF k = 0 THEN x ELSE undoTimes(pressUndo(x), k - 1)

RECURSIVE redoTimes(_, _)
redoTimes(x, k) == IF k = 0 THEN x ELSE redoTimes(pressRedo(x), k - 1)

\* C2: in every reachable state with no drag in flight, k history undos
\* (k at most the length of the undo stack) followed by k redos give back the
\* same scene, undo stack and redo stack; undo on an empty undo stack and
\* redo on an empty redo stack change nothing.
C2_UndoRedoRoundTrip ==
    (~crashed /\ dragging = NoDrag) =>
        /\ \A k \in 0..Len(history) :
              redoTimes(undoTimes(KeyState(HState, FALSE), k), k)
                 = KeyState(HState, FALSE)
        /\ history = <<>> => undoHistory(HState) = HState
        /\ future = <<>> => redoHistory(HState) = HState

\* C3: a pointer-down that starts a drag pushes exactly one snapshot, of the
\* scene it leaves untouched, so that one undo from there gives that scene
\* back; pointer-moves and the pointer-up of the gesture leave both stacks
\* alone, and at the pointer-up of a gesture one undo restores the dragged
\* polygon as it was at pointer-down.
C3_DragIsOneUndoStep ==
    [][ /\ DragStart =>
             /\ Pushed
             /\ Scene' = Scene
             /\ undoHistory(HStatePrime).scene = Scene
        /\ DragMoveStep => (history' = history /\ future' = future)
        /\ DragEndStep =>
             /\ history' = history /\ future' = future
             /\ (selection # NoSel /\ history # <<>>) =>
                   /\ SelExists(undoHistory(HStatePrime).scene, selection)
                   /\ SelPts(undoHistory(HStatePrime).scene, selection)
                        = dragging.startGeom
      ]_vars

\* a drag has moved something and ended: the top snapshot is the scene before
\* the pointer-down, the selection is the dragged target
C3_Witness ==
    /\ ~crashed /\ mode = "select" /\ dragging = NoDrag /\ selection # NoSel
    /\ history # <<>> /\ Last(history) # makeSnapshot(Scene)
    /\ SelExists(Scene, selection) /\ SelExists(Last(history), selection)
    /\ SelPts(Last(history), selection) # SelPts(Scene, selection)

DeleteStep(kinds) ==
    /\ DeleteSelection
    /\ selection.kind \in kinds
    /\ SelValid(Scene, selection)
    /\ Len(SelPts(Scene, selection)) >= 3

\* C4: deleting the selected edge k of an n-vertex lot, internal road or
\* boundary (n >= 3) removes vertex (k + 1) mod n and nothing else; with
\* n = 3 the lot or road leaves its list, the boundary is emptied and opened.
C4_DeleteEdgeRemovesSuccessor ==
    [][ (DeleteStep(PolygonKinds) /\ selection.edgeIndex >= 0) =>
            Scene' = WithSelPts(Scene, selection,
                        Without(SelPts(Scene, selection),
                                (selection.edgeIndex + 1)
                                    % Len(SelPts(Scene, selection))))
      ]_vars

\* the last edge of a 4-vertex lot was deleted: three equal snapshots (the
\* pointer-down and the two of the deletion) hold the lot, which has lost
\* vertex 0
C4_Witness ==
    /\ ~crashed /\ selection = NoSel
    /\ Len(history) = 3 /\ history[1] = history[2] /\ history[2] = history[3]
    /\ Len(lots) >= 1 /\ Len(history[3].lots) = Len(lots)
    /\ Len(history[3].lots[1].pts) = 4
    /\ lots[1].pts = Without(history[3].lots[1].pts, 0)

\* the scene after onDeleteSelection for a selection of a whole entity
EntityDeleted(kind, index) ==
    onDeleteSelection(HState, Sel(kind, index, -1, -1)).h.scene

\* C5: deleting the selected vertex j of a lot, internal road or boundary
\* removes that vertex only when the polygon has more than 3 vertices, and
\* the whole entity (the boundary: emptied and opened) when it has exactly 3;
\* a selection without vertex and edge index deletes the whole entity;
\* everything else in the scene is unchanged.
C5_DeleteVertexOrEntity ==
    /\ [][ (DeleteStep(PolygonKinds) /\ selection.vertexIndex >= 0
                /\ selection.edgeIndex < 0) =>
               Scene' = WithSelPts(Scene, selection,
                           Without(SelPts(Scene, selection), selection.vertexIndex))
         ]_vars
    /\ [](\A kind \in PolygonKinds : \A index \in 0..(MaxLots - 1) :
            SelExists(Scene, Sel(kind, index, -1, -1)) =>
               EntityDeleted(kind, index)
                  = WithoutEntity(Scene, Sel(kind, index, -1, -1)))

\* vertex 0 of a 4-vertex lot was deleted: two equal snapshots (the
\* pointer-down and the deletion) hold the lot, which has lost vertex 0
C5_Witness ==
    /\ ~crashed /\ selection = NoSel
    /\ Len(history) = 2 /\ history[1] = history[2]
    /\ Len(lots) >= 1 /\ Len(history[2].lots) = Len(lots)
    /\ Len(history[2].lots[1].pts) = 4
    /\ lots[1].pts = Without(history[2].lots[1].pts, 0)

\* C6: Delete ends the drag in flight in the same step, and a pointer-move
\* of a gesture whose target was deleted (the drag is in flight, the
\* selection is gone) does not change the scene.
C6_DeleteEndsDrag ==
    [][ /\ DeleteSelection => dragging' = NoDrag
        /\ (DragMoveStep /\ selection = NoSel) => Scene' = Scene
      ]_vars

\* C7: Delete and the end of a drag with a selection that names an entity,
\* vertex or edge the scene no longer has drop the selection, leave the
\* scene unchanged and raise no error.
C7_StaleSelectionDropped ==
    [][ ( /\ DeleteSelection \/ DragEndStep
          /\ selection # NoSel
          /\ ~SelValid(Scene, selection) ) =>
            (selection' = NoSel /\ Scene' = Scene /\ ~crashed')
      ]_vars

DrawingModes == {"boundary", "internalRoad", "lot"}

GridCandidate(c) == snapToGrid(c.aligned, gridStep, <<0, 0>>, c.cfg.gridTol, TRUE)

GridEligible(c) ==
    /\ c.cfg.gridSnap
    /\ \/ c.cfg.gridStrict
       \/ WithinPx(dist2(c.aligned, GridCandidate(c)), 1, c.cfg.gridTol)

\* the line candidate is eligible: a projection within the line tolerance
LineEligible(c) == c.proj.D # 0

\* squared distance from q to the projection, times proj.D squared
ProjDist2(q, proj) ==
    (q[1] * proj.D - proj.N[1]) * (q[1] * proj.D - proj.N[1])
    + (q[2] * proj.D - proj.N[2]) * (q[2] * proj.D - proj.N[2])

BothEligible(c) == c.stage = "resolved" /\ GridEligible(c) /\ LineEligible(c)

\* C9 as amended: with both candidates eligible the resolver takes the one
\* closer to the axis-locked pointer, and the line candidate on a tie.
C9_CloserToAlignedTieLine ==
    BothEligible(snap) =>
        snap.p2 = IF ProjDist2(snap.aligned, snap.proj)
                       <= dist2(snap.aligned, GridCandidate(snap))
                            * snap.proj.D * snap.proj.D
                  THEN roundedProj(snap.proj)
                  ELSE GridCandidate(snap)

\* C9 as stated: with both candidates eligible the resolver takes the one
\* closer to the pointer before the axis lock, and the grid candidate on a tie
C9_CloserToPointerTieGrid ==
    BothEligible(snap) =>
        snap.p2 = IF ProjDist2(snap.raw, snap.proj)
                       < dist2(snap.raw, GridCandidate(snap))
                            * snap.proj.D * snap.proj.D
                  THEN roundedProj(snap.proj)
                  ELSE GridCandidate(snap)

\* a tie between two different candidates, resolved to the line
C9_Witness ==
    /\ BothEligible(snap)
    /\ ProjDist2(snap.aligned, snap.proj)
         = dist2(snap.aligned, GridCandidate(snap)) * snap.proj.D * snap.proj.D
    /\ roundedProj(snap.proj) # GridCandidate(snap)
    /\ snap.p2 = roundedProj(snap.proj)

\* C10: with a projection within the line tolerance and no eligible grid
\* candidate, the point handed to vertex snapping is the line projection.
C10_LineAloneIsTaken ==
    (snap.stage = "resolved" /\ LineEligible(snap) /\ ~GridEligible(snap)) =>
        snap.p2 = roundedProj(snap.proj)

CallDone(fn) == call.fn = fn /\ call.stage = "done"

\* C11: axisAlign(prev, p) is (p.x, prev.y) whenever |p.x - prev.x| >=
\* |p.y - prev.y|, the exact tie included, and (prev.x, p.y) otherwise; with
\* no anchor it is p.
C11_AxisAlignTieHorizontal ==
    CallDone("axisAlign") =>
        LET prev == call.args[1]
            p    == call.args[2]
        IN  IF prev = <<>> THEN call.out = p
            ELSE IF Abs(p[1] - prev[1][1]) >= Abs(p[2] - prev[1][2])
            THEN call.out[1] = p[1] /\ call.out[2] = prev[1][2]
            ELSE call.out[1] = prev[1][1] /\ call.out[2] = p[2]

\* an exact tie off the anchor, locked horizontally
C11_Witness ==
    /\ CallDone("axisAlign") /\ call.args[1] # <<>>
    /\ Abs(call.args[2][1] - call.args[1][1][1])
         = Abs(call.args[2][2] - call.args[1][1][2])
    /\ call.args[2][2] # call.args[1][1][2]
    /\ call.out = <<call.args[2][1], call.args[1][1][2]>>

\* the indices of the pool points nearest to p, in pool order
NearestIn(p, Q) ==
    {i \in 1..Len(Q) : \A j \in 1..Len(Q) : dist2(p, Q[i]) <= dist2(p, Q[j])}

\* C12: snapToPools(p, pools, tol) is the pool point nearest to p, the first
\* in pool order among equally near ones, when its distance to p is at most
\* tol, and p when no pool point is within tol or every pool is empty.
C12_SnapToNearestVertex ==
    CallDone("snapToPools") =>
        LET p == call.args[1]
            Q == Flatten(call.args[2])
        IN  IF Q # <<>> /\ WithinPx(dist2(p, Q[MinOf(NearestIn(p, Q))]), 1, call.args[3])
            THEN call.out = Q[MinOf(NearestIn(p, Q))]
            ELSE call.out = p

\* two different pool points equally near and within tol: the first is taken
C12_Witness ==
    /\ CallDone("snapToPools")
    /\ Cardinality({Flatten(call.args[2])[i] :
                       i \in NearestIn(call.args[1], Flatten(call.args[2]))}) >= 2
    /\ call.out # call.args[1]
    /\ call.out = Flatten(call.args[2])[MinOf(NearestIn(call.args[1],
                                                       Flatten(call.args[2])))]

\* C17: shoelaceArea of an axis-aligned rectangle of sides w and h is w * h
\* for every starting vertex and both windings; with fewer than 3 points it
\* is 0.
C17_RectangleArea ==
    CallDone("shoelaceArea") =>
        IF Len(call.args[1]) < 3 THEN call.out[1] = 0
        ELSE call.out[1] = call.args[2] * call.args[3] * call.out[2]

\* a clockwise rectangle, started at its top right corner, has been measured
C17_Witness ==
    /\ CallDone("shoelaceArea") /\ Len(call.args[1]) = 4
    /\ crossSum(call.args[1], 1) < 0
    /\ \A i \in 2..4 : /\ call.args[1][1][1] >= call.args[1][i][1]
                        /\ call.args[1][1][2] >= call.args[1][i][2]
    /\ call.out[1] = 2 * call.args[2] * call.args[3]

\* C18: for a polygon of positive area and a positive target,
\* scalePolygonToArea gives a polygon whose shoelace area is the target
\* within 1e-6 (in hundredths squared: twice the difference, times 100, is
\* at most 2).
C18_ScaledAreaIsTarget ==
    ( /\ CallDone("scalePolygonToArea")
      /\ call.args[2] > 0 /\ shoelaceArea(call.args[1])[1] > 0 ) =>
        Abs(shoelaceArea(call.out)[1] - 2 * call.args[2] * Scale * Scale) * 100 <= 2

\* C13: a lot of at least 3 points that some internal road touches (an edge of
\* one intersects, touches or lies within the tolerance of an edge of the other)
\* fronts the first such internal road of the list, whatever the public roads
\* and the later internal roads are.
LotTouches(lotPoly, roadPoly, tolPx) ==
    anyTouch(edgesFromPolygon(lotPoly, TRUE), edgesFromPolygon(roadPoly, TRUE),
             tolPx)

TouchedRoads(c) ==
    {i \in 1..Len(c.args[2].internalRoads) :
        LotTouches(c.args[1], c.args[2].internalRoads[i].pts, c.args[3])}

C13_FirstInternalRoadWins ==
    ( /\ CallDone("computeFrontRoadForLot")
      /\ Len(call.args[1]) >= 3
      /\ TouchedRoads(call) # {} ) =>
        \E i \in TouchedRoads(call) :
            /\ \A j \in TouchedRoads(call) : i <= j
            /\ call.out = call.args[2].internalRoads[i].id

\* a lot on the bottom boundary edge between two internal roads that both
\* touch it, with a public road along that edge: the first road listed wins
C13_Witness ==
    /\ CallDone("computeFrontRoadForLot")
    /\ call.args[1] = Rect(1100, 0, 800, 900)
    /\ call.args[2].internalRoads = <<RoadC, RoadA>>
    /\ call.args[2].boundaryClosed /\ call.args[2].boundary = FrontBoundary
    /\ Len(call.args[2].publicRoads) = 1
    /\ call.args[2].publicRoads[1].pts = << <<0, 0>>, <<2000, 0>> >>
    /\ call.out = 2
\* the public roads of a call whose frontage arc the lot touches: roads of at
\* least 2 entry points whose first two entry points have different nearest
\* boundary vertices, the arc being the shorter walk between these vertices
ArcRoads(c) ==
    {i \in 1..Len(c.args[2].publicRoads) :
        anyTouch(edgesFromPolygon(c.args[1], TRUE),
                 pubSegs(c.args[2].boundary, c.args[2].publicRoads[i]),
                 c.args[3])}

NoInternalMatch(c) == Len(c.args[1]) >= 3 /\ TouchedRoads(c) = {}

ClosedRing(c) == c.args[2].boundaryClosed /\ Len(c.args[2].boundary) >= 3

OnCommonEdge(bnd, p, q) ==
    \E i \in 1..Len(bnd) :
        /\ onSegment(bnd[i], bnd[(i % Len(bnd)) + 1], p)
        /\ onSegment(bnd[i], bnd[(i % Len(bnd)) + 1], q)

\* the public roads whose first two entry points lie on one boundary edge and
\* whose segment between these two points the lot touches
BetweenRoads(c) ==
    {i \in 1..Len(c.args[2].publicRoads) :
        /\ Len(c.args[2].publicRoads[i].pts) >= 2
        /\ OnCommonEdge(c.args[2].boundary, c.args[2].publicRoads[i].pts[1],
                        c.args[2].publicRoads[i].pts[2])
        /\ anyTouch(edgesFromPolygon(c.args[1], TRUE),
                    << <<c.args[2].publicRoads[i].pts[1],
                         c.args[2].publicRoads[i].pts[2]>> >>, 0)}

RECURSIVE FrontingLots(_, _, _)
FrontingLots(lotsOut, roadId, i) ==
    IF i > Len(lotsOut) THEN <<>>
    ELSE IF lotsOut[i].front_road = roadId
    THEN <<lotsOut[i].lot_id>> \o FrontingLots(lotsOut, roadId, i + 1)
    ELSE FrontingLots(lotsOut, roadId, i + 1)

MappingsAgree(out) ==
    /\ \A i \in 1..Len(out.roads) :
            out.roads[i].road_to_lot_mapping
                = FrontingLots(out.lots, out.roads[i].road_id, 1)
    /\ \A i \in 1..Len(out.internal_roads) :
            out.internal_roads[i].road_to_lot_mapping
                = FrontingLots(out.lots, out.internal_roads[i].road_id, 1)

\* C15: in every export (of either revision of exportJSON) the
\* road_to_lot_mapping of each public and internal road is the list, in lot
\* order, of the lot_ids of the exported lots whose front_road is that road.
C15_MappingMatchesFrontRoads ==
    (CallDone("exportJSON") \/ CallDone("exportJSONApp")) =>
        MappingsAgree(call.out)

\* the same for the exports of the second revision alone
ExportJSONMappingsAgree == CallDone("exportJSON") => MappingsAgree(call.out)

\* an export of the second revision with a non-empty mapping
ExportJSONMapsSomeLot ==
    /\ CallDone("exportJSON")
    /\ \E i \in 1..Len(call.out.internal_roads) :
            Len(call.out.internal_roads[i].road_to_lot_mapping) >= 2
    /\ \E i \in 1..Len(call.out.roads) :
            call.out.roads[i].road_to_lot_mapping # <<>>
\* the stored polygon re-oriented counter-clockwise: reversed when its winding
\* is clockwise
Reoriented(stored) ==
    IF crossSum(stored, 1) < 0 THEN Reverse(stored) ELSE stored

\* written is the cyclic vertex sequence of stored, re-oriented, closed by its
\* first point
IsClosedReorientation(stored, written) ==
    Len(written) >= 3 =>
        /\ Len(written) = Len(stored) + 1
        /\ Last(written) = written[1]
        /\ \E k \in 0..(Len(stored) - 1) :
                Front(written) = Rotate(Reoriented(stored), k)

PolygonsReoriented(sc, out) ==
    /\ IsClosedReorientation(sc.boundary, out.boundary)
    /\ \A i \in 1..Len(sc.internalRoads) :
            IsClosedReorientation(sc.internalRoads[i].pts,
                                  out.internal_roads[i].polygon)
    /\ \A i \in 1..Len(sc.lots) :
            IsClosedReorientation(sc.lots[i].pts, out.lots[i].polygon)

\* C16: every polygon of at least 3 points that exportJSON writes (boundary,
\* internal roads, lots) is the stored polygon re-oriented counter-clockwise,
\* the same cyclic vertex sequence, reversed when the stored winding is
\* clockwise, with its first point repeated as the last point.
C16_ExportedPolygonsReoriented ==
    CallDone("exportJSON") => PolygonsReoriented(call.args[1], call.out)

\* the same for the scenes without the L-shaped lot
ExportReorientsWithoutThinL ==
    ( /\ CallDone("exportJSON")
      /\ \A i \in 1..Len(call.args[1].lots) :
            call.args[1].lots[i].pts # ThinL ) =>
        PolygonsReoriented(call.args[1], call.out)

\* the exported L-shaped lot
ExportOfThinL ==
    /\ CallDone("exportJSON")
    /\ Len(call.args[1].lots) = 2
    /\ call.args[1].lots[2].pts = ThinL
    /\ call.out.lots[2].polygon =
            << <<1200, 200>>, <<1100, 100>>, <<1700, 100>>, <<1700, 200>>,
               <<1200, 500>>, <<1100, 500>>, <<1200, 200>> >>
\* s without its last element
ButLast(s) == SubSeq(s, 1, Len(s) - 1)

\* what Undo of the first revision does to the path and the lists
UndoEffect ==
    IF current # <<>>
    THEN /\ current' = ButLast(current)
         /\ UNCHANGED <<boundary, boundaryClosed, publicEntryPoints,
                        internalRoads, lots>>
    ELSE /\ publicEntryPoints' =
                IF mode = "publicRoad" /\ publicEntryPoints # <<>>
                THEN ButLast(publicEntryPoints) ELSE publicEntryPoints
         /\ internalRoads' =
                IF mode = "internalRoad" /\ internalRoads # <<>>
                THEN ButLast(internalRoads) ELSE internalRoads
         /\ lots' = IF mode = "lot" /\ lots # <<>> THEN ButLast(lots) ELSE lots
         /\ IF mode = "boundary" /\ boundaryClosed
            THEN /\ current' = boundary
                 /\ boundary' = <<>>
                 /\ boundaryClosed' = FALSE
                 /\ Len(current') >= 3
            ELSE UNCHANGED <<current, boundary, boundaryClosed>>

\* what Close shape does in boundary mode with auto-scale off
CloseEffect ==
    (mode = "boundary" /\ ~autoScaleNew /\ Len(current) >= 3) =>
        /\ boundary' = current
        /\ boundaryClosed' = TRUE
        /\ current' = <<>>

\* C19: Undo of the first revision takes the last vertex off a non-empty path
\* and changes nothing else; with an empty path it takes the last element off
\* the list of the current mode (entry points, internal roads, lots) and
\* changes nothing else; in boundary mode with a closed boundary it makes the
\* boundary's vertices the path and the boundary empty and open, and Close
\* shape with auto-scale off turns a path of at least 3 vertices back into the
\* closed boundary of these vertices.
C19_ModeSensitiveUndo ==
    [][ /\ undoApp => (UndoEffect /\ UNCHANGED <<mode, autoScaleNew>>)
        /\ closeShapeApp => CloseEffect ]_vars

\* a lot still fronting road 1 after Undo in internalRoad mode took the road
C19_Witness ==
    /\ mode = "internalRoad" /\ current = <<>>
    /\ internalRoads = <<>>
    /\ Len(lots) = 1 /\ lots[1].w = 1
\* every element of the list is a road or lot object with a polygon of at
\* least 3 vertices
AllPolygons(list) ==
    \A i \in 1..Len(list) : list[i].k = "obj" /\ Len(list[i].pts) >= 3

OpenRepresentation(poly) ==
    Len(poly) >= 2 =>
        \A i \in 1..Len(poly) : poly[i] # poly[(i % Len(poly)) + 1]

\* C21: in every reachable state no boundary, internal-road or lot polygon has
\* two cyclically consecutive vertices that coincide; in particular its last
\* vertex is not its first.
C21_PolygonsStayOpen ==
    /\ OpenRepresentation(boundary)
    /\ \A i \in 1..Len(internalRoads) : OpenRepresentation(internalRoads[i].pts)
    /\ \A i \in 1..Len(lots) : OpenRepresentation(lots[i].pts)
\* a smart undo that goes to the history: no path in a drawing mode
HistoryUndoStep ==
    /\ smartUndo
    /\ ~(current # <<>> /\ mode \in {"boundary", "internalRoad", "lot"})

geomIn(kind, index, b, prs, irs, ls) ==
    CASE kind = "lot" -> IF IsObj(ls, index) THEN ls[index + 1].pts ELSE <<>>
      [] kind = "internal" -> IF IsObj(irs, index) THEN irs[index + 1].pts ELSE <<>>
      [] kind = "boundary" -> b
      [] kind = "publicEP" -> IF IsObj(prs, index) THEN prs[index + 1].pts ELSE <<>>
      [] OTHER -> <<>>

\* g is the start geometry of drag d but for the dragged vertex, or but for
\* the two endpoints of the dragged edge, displaced by one vector
DraggedFrom(d, g) ==
    LET s  == d.startGeom
        n  == Len(s)
        i  == d.edgeIndex + 1
        i2 == ((d.edgeIndex + 1) % n) + 1
    IN  /\ Len(g) = n
        /\ IF d.type = "vertex"
           THEN \A idx \in 1..n : idx # d.vertexIndex + 1 => g[idx] = s[idx]
           ELSE /\ \A idx \in 1..n : idx \notin {i, i2} => g[idx] = s[idx]
                /\ g[i][1] - s[i][1] = g[i2][1] - s[i2][1]
                /\ g[i][2] - s[i][2] = g[i2][2] - s[i2][2]

\* the live geometry of the drag's target
LiveGeom == geomIn(dragging.kind, dragging.index, boundary, publicRoads,
                   internalRoads, lots)

\* C23: after every pointer-move of a drag the live geometry of the target is
\* the start geometry with the dragged vertex replaced, or with the two
\* endpoints of the dragged edge displaced by one vector; every other vertex is
\* as in the start geometry and the vertex count is that of the start geometry.
C23_DragMovesOnlyTheGrabbedPart ==
    [][(\E p \in MoveInputs : onDragMove(p)) =>
            DraggedFrom(dragging,
                        geomIn(dragging.kind, dragging.index, boundary',
                               publicRoads', internalRoads', lots'))]_vars

\* an edge drag in flight whose two endpoints have left their start positions
C23_Witness ==
    /\ ~crashed
    /\ dragging.type = "edge"
    /\ Len(LiveGeom) = Len(dragging.startGeom)
    /\ LiveGeom[dragging.edgeIndex + 1] # dragging.startGeom[dragging.edgeIndex + 1]

\* a vertex drag in flight whose vertex has left its start position
VertexDragInFlight ==
    /\ ~crashed
    /\ dragging.type = "vertex"
    /\ Len(LiveGeom) = Len(dragging.startGeom)
    /\ LiveGeom[dragging.vertexIndex + 1] # dragging.startGeom[dragging.vertexIndex + 1]
PointerDownStep ==
    \E p \in DownInputs, shiftKey \in BOOLEAN : onPointerDown(p, shiftKey)

\* C24: a Selection and a DragState come into being only by a pointer-down in
\* select mode, and both are null after a pointer-up, after a mode change and
\* after the deletion of their target.
C24_SelectionAndDragLifecycle ==
    [][/\ (selection' # NoSel /\ selection' # selection)
            => (PointerDownStep /\ mode = "select")
       /\ (dragging' # NoDrag /\ dragging' # dragging)
            => (PointerDownStep /\ mode = "select")
       /\ ((\E positive \in BOOLEAN : endDrag(positive))
             \/ (\E m \in Modes : SetMode(m))
             \/ (DeleteSelection /\ ~crashed'))
            => (selection' = NoSel /\ dragging' = NoDrag)]_vars

\* what does hold of the pointer-up: the DragState is gone
PointerUpEndsDrag ==
    [][(\E positive \in BOOLEAN : endDrag(positive)) => dragging' = NoDrag]_vars

\* what does hold of creation: only a pointer-down in select mode creates them
CreatedByPointerDown ==
    [][/\ (selection' # NoSel /\ selection' # selection)
            => (PointerDownStep /\ mode = "select")
       /\ (dragging' # NoDrag /\ dragging' # dragging)
            => (PointerDownStep /\ mode = "select")]_vars
\* C25: the boundary is closed exactly when it has at least 3 points, and an
\* open boundary is empty.
C25_ClosedIffThreePoints ==
    /\ boundaryClosed <=> Len(boundary) >= 3
    /\ ~boundaryClosed => boundary = <<>>

\* a closed boundary has been emptied by a deletion: the snapshot taken
\* before it is on the undo stack
C25_Witness ==
    /\ ~crashed
    /\ ~boundaryClosed /\ boundary = <<>>
    /\ history # <<>>
    /\ Last(history).boundaryClosed
    /\ selection = NoSel

\* a drag has written a boundary back after its deletion
BoundaryRedrawnByDrag ==
    /\ boundaryClosed
    /\ dragging.kind = "boundary"
    /\ selection = NoSel
\* the ids of the objects of a list are pairwise distinct
DistinctIds(arr) ==
    \A i, j \in 1..Len(arr) :
        (i # j /\ arr[i].k = "obj" /\ arr[j].k = "obj") => arr[i].id # arr[j].id

\* C26: the lots have pairwise distinct lot_ids.
C26_LotIdsDistinct == DistinctIds(lots)
\* in the second revision the roads, public and internal together, have
\* pairwise distinct road_ids
RoadIdsDistinct == DistinctIds(internalRoads \o publicRoads)
\* the road_ids of an exported file, public roads first
exportedRoadIds(out) ==
    [i \in 1..Len(out.roads) |-> out.roads[i].road_id]
    \o [i \in 1..Len(out.internal_roads) |-> out.internal_roads[i].road_id]

\* C27 (exported file): no file exported by the first revision holds two
\* roads with the same road_id.
C27_ExportedRoadIdsDistinct ==
    CallDone("exportJSONApp") =>
        LET ids == exportedRoadIds(call.out)
        IN  \A i, j \in 1..Len(ids) : i # j => ids[i] # ids[j]
\* C28: the active public road index is -1 or the index of a public road,
\* after undo, redo and deletion too.
C28_ActiveIndexValid ==
    activePublicIdx = -1 \/ IsObj(publicRoads, activePublicIdx)

\* the consequence the claim draws: no click in publicRoad mode fails
PublicRoadClickNeverFails ==
    [][(\E raw \in EPInputs : ClickPublicRoad(raw, FALSE)) => ~crashed']_vars
\* C29: each Delete-selection adds exactly one snapshot to the undo stack, the
\* scene before the deletion.
C29_DeletePushesOneSnapshot ==
    [][(DeleteSelection /\ ~crashed') =>
            history' = Append(history, makeSnapshot(Scene))]_vars

\* the same for the deletion of a vertex alone
VertexDeletePushesOneSnapshot ==
    [][(DeleteSelection /\ ~crashed' /\ selection.edgeIndex < 0) =>
            history' = Append(history, makeSnapshot(Scene))]_vars
\* C30: the in-progress path is empty after every mode change.
C30_ModeChangeClearsPath ==
    [][(\E m \in Modes : SetMode(m)) => current' = <<>>]_vars

\* no path that can be closed is carried from lot mode into boundary mode
LotPathNeverEntersBoundaryMode ==
    [][(\E m \in Modes : SetMode(m)) =>
            ~(mode = "lot" /\ mode' = "boundary" /\ Len(current) >= 3)]_vars
=============================================================================
